---- MODULE Spec2Model ----
(***************************************************************************)
(* A model of trail-mapper-pro: the routing client (route-service.js), the *)
(* AI Studio route assembly (ai-studio.js), the creator view (creator.js), *)
(* the library and its detail view (library.js), and the batch re-routing  *)
(* of the walks (settings.js, the routing script).                         *)
(*                                                                         *)
(* Units.  Coordinates are integers in thousandths of a degree, so the     *)
(* code's thresholds 0.002 and 0.001 are 2 and 1.  A route's distance is   *)
(* in tenths of a metre and its duration in tenths of a second (the        *)
(* routing service reports one decimal).                                   *)
(*                                                                         *)
(* JavaScript values.  A numeric field that is 0 stands for any falsy      *)
(* value of that field (undefined, null, 0): every test the code makes on  *)
(* an optional coordinate is a truthiness test (x || y, x && y, !x), which *)
(* does not tell them apart.  An async function is one action per await:   *)
(* the action that starts it and one action per promise that settles.      *)
(***************************************************************************)
EXTENDS Integers, Sequences, FiniteSets, TLC

VARIABLES
    \* ---- routing client: one fetchHikingRoute / fetchCircularRoute call
    orsPc,          \* "idle" | "proxy" | "direct" | "done"
    orsKind,        \* "none" | "hiking" | "circular": the function called
    orsLocalKey,    \* TRUE iff localStorage holds a non-empty ors_api_key
    orsRequests,    \* the requests sent, in order: [endpoint, coordinates]
    orsInTry,       \* the pending callORSDirect was called inside callORS's try
    orsProxySeen,   \* what the proxy answered: [type, status]
    orsArgs,        \* the call's arguments: [start, end, via]
    orsData,        \* the JSON callORS returned to fetch*Route, if it returned
    orsResult       \* [state |-> "none"] | resolved RouteResult | rejected error

orsVars == <<orsPc, orsKind, orsLocalKey, orsRequests, orsInTry, orsProxySeen,
             orsArgs, orsData, orsResult>>

VARIABLES
    \* ---- AI Studio (ai-studio.js)
    aiPrompt,           \* TRUE iff the prompt box holds text
    aiDraft,            \* the walk the language model answers the prompt with
    aiRuns,             \* the invocations of aiGenerate, in the order they started
    generatedWalk,      \* module variable: 0 (null) or the run whose walk object it is
    generatedWaypoints, \* module variable
    aiBtnDisabled,      \* btn-ai-generate.disabled
    aiStatus,           \* ai-status: "hidden" | "working" | "success" | "error"
    aiResultShown,      \* ai-result is displayed, and with it the walk's buttons
    aiJsonOutput        \* ai-json-output: <<>> or the one walk it shows as JSON

aiVars == <<aiPrompt, aiDraft, aiRuns, generatedWalk, generatedWaypoints,
            aiBtnDisabled, aiStatus, aiResultShown, aiJsonOutput>>

VARIABLES
    \* ---- Walk Creator (creator.js)
    startCoords,        \* module variable: NoPoint (null) or the car park pin
    endCoords,          \* module variable: NoPoint (null) or the destination pin
    clickCount,         \* module variable
    isCircular,         \* module variable: the route type toggle
    creatorWaypoints,   \* creator.js's generatedWaypoints
    btnGenerate,        \* btn-generate: [disabled, text]
    creatorForm,        \* creator-form: [shown, distance, time]
    creatorRuns         \* the invocations of generateRoute, in the order they started

creatorVars == <<startCoords, endCoords, clickCount, isCircular, creatorWaypoints,
                 btnGenerate, creatorForm, creatorRuns>>

VARIABLES
    \* ---- Walk Library (library.js) and its batch re-routing (settings.js)
    walks,              \* module variable: the in-memory walk list
    storedWalks,        \* localStorage trail_mapper_walks: the list last saved
    storedItem,         \* what that item holds: "none" | "list" | "other"
    storedVersion,      \* localStorage trail_mapper_walks_version, "none" if absent
    loadPc,             \* loadWalks: "start" | "fetch" | "done" | "failed"
    filteredWalks,      \* module variable: the walks the grid shows
    activeFilters,      \* module variable: [difficulty, type]
    auditRuns,          \* the invocations of auditRoutes, in the order they started
    auditRequests,      \* the routing calls of auditRoutes that have not settled
    detailActive,       \* view-detail is shown
    detailRouteType,    \* detail-route-type: "empty" | "circular" | "linear"
    detailTimers,       \* pending map-render callbacks: the walk index of each
    detailMap           \* module variable: 0 (null) or the walk index its map shows

libraryVars == <<walks, storedWalks, storedItem, storedVersion, loadPc,
                 filteredWalks, activeFilters, auditRuns,
                 auditRequests, detailActive, detailRouteType, detailTimers, detailMap>>

VARIABLES
    \* ---- the routing script (its main and its walks.json)
    scriptPc,           \* "start" | "route" | "delay" | "done"
    scriptWalks,        \* the walks read from walks.json
    scriptI,            \* main's loop index, from 1
    scriptCount,        \* [ok, fail]
    scriptRequests,     \* the fetchORS calls that have not settled: the walk index of each
    scriptFile          \* walks.json as written by main, <<>> before that

scriptVars == <<scriptPc, scriptWalks, scriptI, scriptCount, scriptRequests, scriptFile>>

VARIABLES
    \* ---- one call of generateDirections (gemini-api.js)
    dirPc,              \* "idle" | "call" | "returned"
    dirWaypoints,       \* the waypoints argument
    dirOutcome,         \* how callGemini ended, once it has
    dirResult           \* what the returned promise resolved with

dirVars == <<dirPc, dirWaypoints, dirOutcome, dirResult>>

VARIABLES
    \* ---- one call each of formatDistance and formatDuration
    fmtMeters,          \* the argument of formatDistance, in tenths of a metre
    fmtSeconds,         \* the argument of formatDuration, in tenths of a second
    fmtDistance,        \* what formatDistance returned, "" before the call
    fmtDuration         \* what formatDuration returned, "" before the call

fmtVars == <<fmtMeters, fmtSeconds, fmtDistance, fmtDuration>>

VARIABLES
    \* ---- the proxy endpoint (api/ors.js): one request at a time
    proxyPc,            \* "idle" | "fetch" | "json" | "done"
    proxyKey,           \* TRUE iff process.env.ORS_API_KEY is set
    proxyReq,           \* the request: [method, body]
    proxyCors,          \* the three Access-Control-Allow-* headers are set
    proxySent,          \* the requests sent to the routing service
    proxyResponse,      \* what the routing service answered: [status, body]
    proxyRes            \* what the handler answers: [status, body]

proxyVars == <<proxyPc, proxyKey, proxyReq, proxyCors, proxySent, proxyResponse,
               proxyRes>>

vars == <<orsVars, aiVars, creatorVars, libraryVars, scriptVars, dirVars, fmtVars,
          proxyVars>>

--------------------------------------------------------------------------
(* JavaScript helpers *)

Abs(x) == IF x < 0 THEN -x ELSE x

\* !!x of a numeric field
Truthy(x) == x # 0

\* x || y of numeric fields
OrElse(x, y) == IF Truthy(x) THEN x ELSE y

Lat(p) == p[1]
Lon(p) == p[2]

\* c => [c[1], c[0]]: the routing service's [lon, lat] to [lat, lon] and back
SwapAxes(c) == <<c[2], c[1]>>

\* coords.map(c => [c[1], c[0]])
SwapAll(s) == [i \in 1..Len(s) |-> SwapAxes(s[i])]

RECURSIVE Flatten(_)
Flatten(ss) == IF ss = <<>> THEN <<>> ELSE Head(ss) \o Flatten(Tail(ss))

--------------------------------------------------------------------------
(* formatDistance, formatDuration *)

RECURSIVE Pow2Mod(_, _)
\* 2^j mod n
Pow2Mod(j, n) == IF j = 0 THEN 1 % n ELSE (2 * Pow2Mod(j - 1, n)) % n

RECURSIVE Log2Floor(_, _)
\* the e >= 0 with 2^e <= num/den < 2^(e+1), for num >= den
Log2Floor(num, den) == IF num < 2 * den THEN 0 ELSE 1 + Log2Floor(num, 2 * den)

\* Whether the double nearest to m/1000 (m an integer number of metres, the
\* quotient a decimal tie k.k5) is at or above the tie.  The double's 53-bit
\* significand is m * 2^(52-e) / 1000 rounded to nearest, so the double is below
\* the quotient iff the remainder of that division is in 1..499.
DoubleAtOrAboveTie(m) ==
    LET e == Log2Floor(m, 1000)
        r == ((m % 1000) * Pow2Mod(52 - e, 1000)) % 1000
    IN  r = 0 \/ r > 500

\* (x).toFixed(1) of x = meters / 1000, as the number of tenths: the n with
\* n/10 closest to the double x, the larger n when two are equally close.
ToFixed1Tenths(dm) ==
    LET n   == dm \div 1000
        rem == dm % 1000
    IN  IF rem > 500 THEN n + 1
        ELSE IF rem < 500 THEN n
        ELSE IF DoubleAtOrAboveTie(dm \div 10) THEN n + 1 ELSE n

\* Math.round(x) of x = num/den >= 0: the nearest integer, a half rounds up
RoundHalfUp(num, den) == (2 * num + den) \div (2 * den)

\* a formatDistance that cuts the fraction off
formatDistance_truncating(dm) ==
    IF dm >= 10000
    THEN ToString(dm \div 10000) \o "." \o ToString((dm \div 1000) % 10) \o " km"
    ELSE ToString(dm \div 10) \o " m"

\* formatDistance(meters), meters = dm / 10
formatDistance(dm) ==
    IF dm >= 10000
    THEN LET n == ToFixed1Tenths(dm)
         IN  ToString(n \div 10) \o "." \o ToString(n % 10) \o " km"
    ELSE ToString(RoundHalfUp(dm, 10)) \o " m"

\* String(n / 10): a JavaScript number prints without a trailing ".0"
NumberOfTenthsToString(n) ==
    IF n % 10 = 0 THEN ToString(n \div 10)
    ELSE ToString(n \div 10) \o "." \o ToString(n % 10)

\* a formatDuration that cuts the fraction off
formatDuration_truncating(ds) ==
    IF ds >= 36000
    THEN NumberOfTenthsToString(ds \div 3600) \o " hours"
    ELSE ToString(ds \div 600) \o " mins"

\* formatDuration(seconds), seconds = ds / 10
formatDuration(ds) ==
    IF ds >= 36000
    THEN NumberOfTenthsToString(RoundHalfUp(ds, 3600)) \o " hours"
    ELSE ToString(RoundHalfUp(ds, 600)) \o " mins"

--------------------------------------------------------------------------
(* The routing client: callORS, callORSDirect, fetchHikingRoute,           *)
(* fetchCircularRoute                                                      *)

\* the car park of every scenario, (54.400, -3.000)
Start == <<54400, -3000>>

\* end / destination points: the start itself, a point within 0.002 of it,
\* and a distant one
NearStart == <<54401, -3000>>
Far == <<54420, -3020>>
Points == {Start, NearStart, Far}

\* [start, ...via, end] in the service's [lon, lat] order
HikingCoordinates(start, end, viaPoints) ==
    <<SwapAxes(start)>> \o SwapAll(viaPoints) \o <<SwapAxes(end)>>

\* [start, destination, start] in the service's [lon, lat] order
CircularCoordinates(start, dest) ==
    <<SwapAxes(start), SwapAxes(dest), SwapAxes(start)>>

\* segments?.[0]?.steps || []
FirstSegmentSteps(segments) == IF segments = <<>> THEN <<>> ELSE segments[1]

\* segments?.flatMap(s => s.steps) || []
AllSegmentSteps(segments) == Flatten(segments)

\* the RouteResult fetchHikingRoute returns for the service's answer `data`
HikingResult(data) ==
    [waypoints    |-> SwapAll(data.coords),
     distance     |-> data.distance,
     duration     |-> data.duration,
     instructions |-> FirstSegmentSteps(data.segments)]

\* the RouteResult fetchCircularRoute returns for the service's answer `data`
CircularResult(data) ==
    [waypoints    |-> SwapAll(data.coords),
     distance     |-> data.distance,
     duration     |-> data.duration,
     instructions |-> AllSegmentSteps(data.segments)]

\* answers of the routing service: a path in [lon, lat] order, the summary,
\* and the turn steps of each leg
Path2 == <<SwapAxes(Start), SwapAxes(Far)>>
Path3 == <<SwapAxes(Start), SwapAxes(Far), SwapAxes(Start)>>
OrsDatas ==
    { [coords |-> Path2, distance |-> 9500,  duration |-> 18000, segments |-> <<>>],
      [coords |-> Path2, distance |-> 9996,  duration |-> 35990, segments |-> << <<"s1", "s2">> >>],
      [coords |-> Path3, distance |-> 50000, duration |-> 36000,
       segments |-> << <<"s1">>, <<"s2", "s3">> >>],
      [coords |-> Path3, distance |-> 123450, duration |-> 54000,
       segments |-> << <<"s1", "s2">>, <<>> >>] }

\* HTTP statuses an endpoint answers with
Statuses == {200, 404, 429, 500}

\* what a fetch of an endpoint settles to: a network failure, or a response
\* with a status and a body that is a route (json), not JSON at all (text), or
\* JSON without features[0]
FetchOutcomes ==
    {[type |-> "network", status |-> 0, body |-> "none"]}
    \cup {[type |-> "response", status |-> s, body |-> "text"] : s \in Statuses}
    \cup {[type |-> "response", status |-> 200, body |-> "nofeature"]}
    \cup {[type |-> "response", status |-> 200, body |-> "json"]}

\* response.ok
Ok(outcome) == outcome.type = "response" /\ outcome.status = 200

\* new Error(`ORS API error (${status}): ${errText}`)
StatusError(endpoint, status) ==
    [state |-> "rejected", error |-> "status", endpoint |-> endpoint, status |-> status]

\* the TypeError of fetch, the SyntaxError of response.json(), the TypeError
\* of data.features[0]
OtherError(what, endpoint) ==
    [state |-> "rejected", error |-> what, endpoint |-> endpoint, status |-> 0]

NoResult == [state |-> "none"]

\* no JSON with a route in it
NoData == [coords |-> <<>>, distance |-> 0, duration |-> 0, segments |-> <<>>]

Resolved(kind, data) ==
    [state |-> "resolved",
     route |-> IF kind = "hiking" THEN HikingResult(data) ELSE CircularResult(data)]

\* fetch(PROXY_ENDPOINT, ...) / fetch(DIRECT_ENDPOINT, ...): one more request
Request(endpoint) ==
    Append(orsRequests, [endpoint |-> endpoint, coordinates |-> orsRequests[1].coordinates])

\* the catch block of callORS: with a local key the direct endpoint is
\* called (outside the try), without one the error is rethrown
callORS_catch(err) ==
    IF orsLocalKey
    THEN /\ orsPc' = "direct"
         /\ orsInTry' = FALSE
         /\ orsRequests' = Request("direct")
         /\ UNCHANGED <<orsData, orsResult>>
    ELSE /\ orsPc' = "done"
         /\ orsResult' = err
         /\ UNCHANGED <<orsInTry, orsRequests, orsData>>

\* callORS returned `body`: fetch*Route reads data.features[0] and builds
\* its RouteResult
fetchRoute_return(endpoint, body, data) ==
    /\ orsPc' = "done"
    /\ orsData' = IF body = "nofeature" THEN NoData ELSE data
    /\ orsResult' = IF body = "nofeature" THEN OtherError("type", endpoint)
                    ELSE Resolved(orsKind, data)
    /\ UNCHANGED <<orsInTry, orsRequests>>

\* fetchHikingRoute(startLat, startLon, endLat, endLon, viaPoints) up to its
\* await of callORS, which awaits the proxy
fetchHikingRoute(start, end, viaPoints) ==
    /\ orsPc = "idle"
    /\ orsPc' = "proxy"
    /\ orsKind' = "hiking"
    /\ orsRequests' = <<[endpoint |-> "proxy",
                         coordinates |-> HikingCoordinates(start, end, viaPoints)]>>
    /\ orsInTry' = TRUE
    /\ orsArgs' = [start |-> start, end |-> end, via |-> viaPoints]
    /\ UNCHANGED <<orsLocalKey, orsProxySeen, orsData, orsResult>>

\* fetchCircularRoute(startLat, startLon, destLat, destLon) up to its await
fetchCircularRoute(start, dest) ==
    /\ orsPc = "idle"
    /\ orsPc' = "proxy"
    /\ orsKind' = "circular"
    /\ orsRequests' = <<[endpoint |-> "proxy",
                         coordinates |-> CircularCoordinates(start, dest)]>>
    /\ orsInTry' = TRUE
    /\ orsArgs' = [start |-> start, end |-> start, via |-> <<dest>>]
    /\ UNCHANGED <<orsLocalKey, orsProxySeen, orsData, orsResult>>

\* callORS after the proxy's fetch settled
callORS(outcome, data) ==
    /\ orsPc = "proxy"
    /\ orsProxySeen' = [type |-> outcome.type, status |-> outcome.status]
    /\ UNCHANGED <<orsKind, orsLocalKey, orsArgs>>
    /\ IF outcome.type = "network"
       THEN callORS_catch(OtherError("network", "proxy"))
       ELSE IF Ok(outcome)
       THEN IF outcome.body = "text"
            THEN callORS_catch(OtherError("syntax", "proxy"))
            ELSE fetchRoute_return("proxy", outcome.body, data)
       ELSE IF outcome.status = 500 /\ orsLocalKey
       THEN /\ orsPc' = "direct"
            /\ orsRequests' = Request("direct")
            /\ UNCHANGED <<orsInTry, orsData, orsResult>>
       ELSE callORS_catch(StatusError("proxy", outcome.status))

\* callORSDirect after the direct endpoint's fetch settled; when it was
\* called inside callORS's try, what it throws lands in callORS's catch
callORSDirect(outcome, data) ==
    /\ orsPc = "direct"
    /\ UNCHANGED <<orsKind, orsLocalKey, orsProxySeen, orsArgs>>
    /\ LET err == IF outcome.type = "network" THEN OtherError("network", "direct")
                  ELSE IF ~Ok(outcome) THEN StatusError("direct", outcome.status)
                  ELSE OtherError("syntax", "direct")
       IN  IF Ok(outcome) /\ outcome.body # "text"
           THEN fetchRoute_return("direct", outcome.body, data)
           ELSE IF orsInTry
           THEN callORS_catch(err)
           ELSE /\ orsPc' = "done"
                /\ orsResult' = err
                /\ UNCHANGED <<orsInTry, orsRequests, orsData>>

OrsInit ==
    /\ orsPc = "idle"
    /\ orsKind = "none"
    /\ orsLocalKey \in BOOLEAN
    /\ orsRequests = <<>>
    /\ orsInTry = FALSE
    /\ orsProxySeen = [type |-> "none", status |-> 0]
    /\ orsArgs = [start |-> Start, end |-> Start, via |-> <<>>]
    /\ orsData = NoData
    /\ orsResult = NoResult

--------------------------------------------------------------------------
(* AI Studio: aiGenerate                                                   *)

\* invocations of aiGenerate in one behaviour
MaxAIRuns == 2

\* an absent coordinate pair
NoPoint == <<0, 0>>

\* a latitude without a longitude
HalfPoint == <<54400, 0>>

\* exactly 0.002 from the start
EdgePoint == <<54402, -3000>>

\* the circular threshold of aiGenerate and auditRoutes, 0.002 degrees
EpsCircular == 2

\* the distinct-destination threshold of aiGenerate, 0.001 degrees
EpsDistinct == 1

\* the loop offset of aiGenerate, (+0.008, +0.005) degrees
OffsetLat == 8
OffsetLon == 5

\* a value of walk.directions, and what generateDirections resolves with: a
\* list of steps, or what else JSON.parse gave ("object", "string", "null");
\* a "string" is a string that is not empty
Directions(kind, steps) == [kind |-> kind, steps |-> steps]
NoDirections == Directions("none", <<>>)

AiSteps(n) == Directions("list", [i \in 1..n |-> [step |-> i, by |-> "ai"]])

\* the drafts generateWalkFromPrompt resolves with: lat and lon are set (it
\* throws without them); end, destination, isCircular, loopWaypoints and
\* directions are what the language model chose to give
Drafts ==
    [lat : {Lat(Start)}, lon : {Lon(Start)},
     end : {NoPoint, HalfPoint, Start, NearStart, EdgePoint, Far},
     isCircular : {"true", "false", "unset"},
     destination : {NoPoint, NearStart, Far},
     loopWaypoints : {<<>>, <<Far, NearStart>>},
     directions : {AiSteps(0), AiSteps(3)},
     distance : {"3.5 km"}, time : {"1.5 hours"},
     hasWaypoints : {FALSE}, waypoints : {<<>>}]

\* the answers of the routing service to aiGenerate's call
AiRouteDatas == {d \in OrsDatas : d.distance \in {9996, 50000}}

\* what generateDirections resolves with
EnrichedSteps == [i \in 1..5 |-> [step |-> i, by |-> "enrich"]]

WalkStart(walk) == <<walk.lat, walk.lon>>

\* const endLat = walk.endLat || walk.lat; const endLon = walk.endLon || walk.lon
EndOrStart(walk) == <<OrElse(Lat(walk.end), walk.lat), OrElse(Lon(walk.end), walk.lon)>>

\* walk.isCircular !== false && |lat - endLat| < 0.002 && |lon - endLon| < 0.002
AiIsCircular(walk) ==
    /\ walk.isCircular # "false"
    /\ Abs(walk.lat - Lat(EndOrStart(walk))) < EpsCircular
    /\ Abs(walk.lon - Lon(EndOrStart(walk))) < EpsCircular

\* walk.loopWaypoints && walk.loopWaypoints.length >= 2
HasLoop(walk) == Len(walk.loopWaypoints) >= 2

\* const destLat = walk.destinationLat || endLat; destLon likewise
AiDestination(walk) ==
    <<OrElse(Lat(walk.destination), Lat(EndOrStart(walk))),
      OrElse(Lon(walk.destination), Lon(EndOrStart(walk)))>>

\* |destLat - lat| > 0.001 || |destLon - lon| > 0.001
Distinct(p, q) == Abs(Lat(p) - Lat(q)) > EpsDistinct \/ Abs(Lon(p) - Lon(q)) > EpsDistinct

\* the routing call aiGenerate awaits for `walk`: the function and its points
AiRouteCall(walk) ==
    IF HasLoop(walk)
    THEN [fn |-> "multi",
          points |-> <<WalkStart(walk)>> \o walk.loopWaypoints
                     \o (IF AiIsCircular(walk) THEN <<WalkStart(walk)>> ELSE <<>>)]
    ELSE IF AiIsCircular(walk)
    THEN IF Distinct(AiDestination(walk), WalkStart(walk))
         THEN [fn |-> "circular", points |-> <<WalkStart(walk), AiDestination(walk)>>]
         ELSE [fn |-> "circular",
               points |-> <<WalkStart(walk),
                            <<walk.lat + OffsetLat, walk.lon + OffsetLon>> >>]
    ELSE [fn |-> "hiking", points |-> <<WalkStart(walk), EndOrStart(walk)>>]

\* fetchMultiWaypointRoute's RouteResult: the path and the summary
MultiWaypointResult(data) ==
    [waypoints    |-> SwapAll(data.coords),
     distance     |-> data.distance,
     duration     |-> data.duration,
     instructions |-> AllSegmentSteps(data.segments)]

RouteResultOf(fn, data) ==
    IF fn = "hiking" THEN HikingResult(data)
    ELSE IF fn = "circular" THEN CircularResult(data)
    ELSE MultiWaypointResult(data)

\* a fallback that forgets the end coordinate
AiFallbackWaypoints_startOnly(walk) == <<WalkStart(walk)>>

\* the catch of the routing try: the waypoints made of the AI's coordinates
AiFallbackWaypoints(walk) ==
    IF HasLoop(walk)
    THEN <<WalkStart(walk)>> \o walk.loopWaypoints
         \o (IF walk.end = WalkStart(walk) THEN <<WalkStart(walk)>> ELSE <<>>)
    ELSE <<WalkStart(walk)>>
         \o (IF Truthy(Lat(walk.end)) /\ Truthy(Lon(walk.end)) THEN <<walk.end>> ELSE <<>>)

\* the walk after the routing try succeeded with routeData
AiWalkRouted(walk, routeData) ==
    [walk EXCEPT !.waypoints = routeData.waypoints,
                 !.hasWaypoints = TRUE,
                 !.distance = formatDistance(routeData.distance),
                 !.time = formatDuration(routeData.duration)]

\* the walk after the routing try failed
AiWalkFallback(walk) ==
    [walk EXCEPT !.waypoints = AiFallbackWaypoints(walk), !.hasWaypoints = TRUE]

\* !walk.directions || walk.directions.length < 3, for the list or the null
\* a draft has there
NeedsDirections(walk) ==
    \/ walk.directions.kind = "null"
    \/ walk.directions.kind = "list" /\ Len(walk.directions.steps) < 3

\* dirs && dirs.length > 0: a list with steps or a string; an object has no
\* length, null is falsy
DirsUsable(dirs) ==
    \/ dirs.kind = "list" /\ Len(dirs.steps) > 0
    \/ dirs.kind = "string"

\* renderAIResult: walk.directions.slice(0, 3).map(...) throws for a string,
\* which has slice and no map
RenderThrows(walk) == walk.directions.kind = "string"

\* delete walk.isCircular; delete walk.destinationLat; delete walk.destinationLon
AiCleanUp(walk) == [walk EXCEPT !.isCircular = "unset", !.destination = NoPoint]

\* the status aiGenerate shows when its outer try ends without a throw
AiFinalStatus(fallback) == "success"

AiRunIds == 1..Len(aiRuns)

\* the runs of aiGenerate that have started and not returned
AiInFlight == {r \in AiRunIds : aiRuns[r].pc \in {"walk", "route", "dirs"}}

\* the end of aiGenerate's try for run r, whose walk is `walk`: clean up,
\* publish, show the result, re-enable the button
aiGenerate_finish(r, run, walk) ==
    /\ generatedWalk' = r
    /\ aiBtnDisabled' = FALSE
    /\ IF RenderThrows(walk)
       THEN \* the outer catch: the error replaces the success just written
            /\ aiRuns' = [aiRuns EXCEPT ![r] = [run EXCEPT !.pc = "failed",
                                                           !.walk = AiCleanUp(walk),
                                                           !.shown = "error"]]
            /\ aiStatus' = "error"
            /\ UNCHANGED aiResultShown
       ELSE /\ aiRuns' = [aiRuns EXCEPT ![r] = [run EXCEPT !.pc = "done",
                                                           !.walk = AiCleanUp(walk),
                                                           !.shown = AiFinalStatus(run.fallback)]]
            /\ aiStatus' = AiFinalStatus(run.fallback)
            /\ aiResultShown' = TRUE

\* aiGenerate from its start to its await of generateWalkFromPrompt; a click
\* needs the button enabled, the Enter key in the prompt box does not
aiGenerate(trigger) ==
    /\ aiPrompt
    /\ trigger = "click" => ~aiBtnDisabled
    /\ Len(aiRuns) < MaxAIRuns
    /\ aiRuns' = Append(aiRuns, [pc |-> "walk", walk |-> aiDraft,
                                 call |-> [fn |-> "none", points |-> <<>>],
                                 fallback |-> FALSE, routeData |-> NoData,
                                 dirs |-> NoDirections, shown |-> "working"])
    /\ aiBtnDisabled' = TRUE
    /\ aiStatus' = "working"
    /\ aiResultShown' = FALSE
    /\ UNCHANGED <<aiPrompt, aiDraft, generatedWalk, generatedWaypoints, aiJsonOutput>>

\* run r's generateWalkFromPrompt resolved: generatedWalk = walk, then the
\* routing call is made and awaited
aiGenerate_walkResolved(r) ==
    /\ r \in AiRunIds /\ aiRuns[r].pc = "walk"
    /\ generatedWalk' = r
    /\ aiRuns' = [aiRuns EXCEPT ![r].pc = "route", ![r].call = AiRouteCall(aiRuns[r].walk)]
    /\ UNCHANGED <<aiPrompt, aiDraft, generatedWaypoints, aiBtnDisabled, aiStatus,
                   aiResultShown, aiJsonOutput>>

\* run r's generateWalkFromPrompt rejected: the outer catch shows the error
aiGenerate_walkRejected(r) ==
    /\ r \in AiRunIds /\ aiRuns[r].pc = "walk"
    /\ aiRuns' = [aiRuns EXCEPT ![r].pc = "failed", ![r].shown = "error"]
    /\ aiStatus' = "error"
    /\ aiBtnDisabled' = FALSE
    /\ UNCHANGED <<aiPrompt, aiDraft, generatedWalk, generatedWaypoints,
                   aiResultShown, aiJsonOutput>>

\* what follows the routing try of run r, whose record has become `run` and
\* whose walk has become `walk`: directions are requested and awaited, or
\* the run finishes
aiGenerate_afterRoute(r, run, walk) ==
    IF NeedsDirections(walk)
    THEN /\ aiRuns' = [aiRuns EXCEPT ![r] = [run EXCEPT !.pc = "dirs", !.walk = walk]]
         /\ UNCHANGED <<generatedWalk, aiStatus, aiBtnDisabled, aiResultShown>>
    ELSE aiGenerate_finish(r, run, walk)

\* run r's routing call resolved with the service's answer `data`
aiGenerate_routeResolved(r, data) ==
    /\ r \in AiRunIds /\ aiRuns[r].pc = "route"
    /\ LET routeData == RouteResultOf(aiRuns[r].call.fn, data)
       IN  /\ generatedWaypoints' = routeData.waypoints
           /\ aiGenerate_afterRoute(r, [aiRuns[r] EXCEPT !.routeData = data],
                                    AiWalkRouted(aiRuns[r].walk, routeData))
    /\ UNCHANGED <<aiPrompt, aiDraft, aiJsonOutput>>

\* run r's routing call rejected: the inner catch falls back
aiGenerate_routeRejected(r) ==
    /\ r \in AiRunIds /\ aiRuns[r].pc = "route"
    /\ LET walk == AiWalkFallback(aiRuns[r].walk)
       IN  /\ generatedWaypoints' = walk.waypoints
           /\ aiGenerate_afterRoute(r, [aiRuns[r] EXCEPT !.fallback = TRUE], walk)
    /\ UNCHANGED <<aiPrompt, aiDraft, aiJsonOutput>>

\* run r's generateDirections resolved with `dirs` (it never rejects):
\* if (dirs && dirs.length > 0) walk.directions = dirs; then the run finishes
aiGenerate_directionsResolved(r, dirs) ==
    /\ r \in AiRunIds /\ aiRuns[r].pc = "dirs"
    /\ aiGenerate_finish(r, [aiRuns[r] EXCEPT !.dirs = dirs],
                         IF DirsUsable(dirs)
                         THEN [aiRuns[r].walk EXCEPT !.directions = dirs]
                         ELSE aiRuns[r].walk)
    /\ UNCHANGED <<aiPrompt, aiDraft, generatedWaypoints, aiJsonOutput>>

\* a preset button puts its prompt in the box
presetClick ==
    /\ ~aiPrompt
    /\ aiPrompt' = TRUE
    /\ UNCHANGED <<aiDraft, aiRuns, generatedWalk, generatedWaypoints,
                   aiBtnDisabled, aiStatus, aiResultShown, aiJsonOutput>>

AiInit ==
    /\ aiPrompt = FALSE
    /\ aiDraft \in Drafts
    /\ aiRuns = <<>>
    /\ generatedWalk = 0
    /\ generatedWaypoints = <<>>
    /\ aiBtnDisabled = FALSE
    /\ aiStatus = "hidden"
    /\ aiResultShown = FALSE
    /\ aiJsonOutput = <<>>

--------------------------------------------------------------------------
(* Walk Creator: map clicks, clearPins, generateRoute                      *)

\* invocations of generateRoute in one behaviour
MaxCreatorRuns == 2

\* interpolateRoute's default numPoints
NumPoints == 20

\* where the user clicks the creator map; their differences are multiples
\* of NumPoints, so the interpolated points are whole thousandths
Peak == <<54440, -2960>>
ClickPoints == {Start, Far}

\* interpolateRoute(start, end): numPoints + 1 points on the straight line
interpolateRoute(start, end) ==
    [i \in 1..(NumPoints + 1) |->
        <<Lat(start) + ((Lat(end) - Lat(start)) * (i - 1)) \div NumPoints,
          Lon(start) + ((Lon(end) - Lon(start)) * (i - 1)) \div NumPoints>>]

\* document.getElementById('btn-generate').disabled = !(startCoords && endCoords)
checkGenerateReady(start, end) ==
    [btnGenerate EXCEPT !.disabled = ~(start # NoPoint /\ end # NoPoint)]

CreatorRunIds == 1..Len(creatorRuns)

\* the runs of generateRoute that have started and not returned or thrown
CreatorInFlight == {r \in CreatorRunIds : creatorRuns[r].pc = "route"}

\* the status elements of the runs that are in the document, oldest first
AttachedStatus == {r \in CreatorRunIds : creatorRuns[r].attached}

\* creatorMap.on('click'): the first click sets the car park, the second the
\* destination, a later one changes nothing
creatorMapClick(p) ==
    /\ clickCount \in {0, 1}
    /\ IF clickCount = 0
       THEN /\ startCoords' = p
            /\ btnGenerate' = checkGenerateReady(p, endCoords)
            /\ UNCHANGED endCoords
       ELSE /\ endCoords' = p
            /\ btnGenerate' = checkGenerateReady(startCoords, p)
            /\ UNCHANGED startCoords
    /\ clickCount' = clickCount + 1
    /\ UNCHANGED <<isCircular, creatorWaypoints, creatorForm, creatorRuns>>

\* the route type toggle
routeCircularClick ==
    /\ isCircular' = TRUE
    /\ UNCHANGED <<startCoords, endCoords, clickCount, creatorWaypoints,
                   btnGenerate, creatorForm, creatorRuns>>

routeLinearClick ==
    /\ isCircular' = FALSE
    /\ UNCHANGED <<startCoords, endCoords, clickCount, creatorWaypoints,
                   btnGenerate, creatorForm, creatorRuns>>

\* clearPins: it also removes the first status element of the document
clearPins ==
    /\ startCoords' = NoPoint
    /\ endCoords' = NoPoint
    /\ creatorWaypoints' = <<>>
    /\ clickCount' = 0
    /\ btnGenerate' = [btnGenerate EXCEPT !.disabled = TRUE]
    /\ creatorForm' = [creatorForm EXCEPT !.shown = FALSE]
    /\ creatorRuns' = [r \in CreatorRunIds |->
                          IF AttachedStatus # {} /\ r = CHOOSE a \in AttachedStatus :
                                                          \A b \in AttachedStatus : a <= b
                          THEN [creatorRuns[r] EXCEPT !.attached = FALSE]
                          ELSE creatorRuns[r]]
    /\ UNCHANGED isCircular

\* the end of generateRoute after its try or its catch: the button is
\* restored and the status element has 8 seconds left
generateRoute_end(runs, r, status, fallback) ==
    /\ creatorRuns' = [runs EXCEPT ![r].pc = "done", ![r].status = status,
                                   ![r].fallback = fallback]
    /\ btnGenerate' = [disabled |-> FALSE, text |-> "idle"]

\* generateRoute from the click on btn-generate to its first await, or to its
\* end when there is no key and nothing to await; hasKey = !!getORSKey() is
\* the stored key (the older route service falls back to a built-in key,
\* which is the case of a stored key)
generateRoute ==
    /\ ~btnGenerate.disabled
    /\ Len(creatorRuns) < MaxCreatorRuns
    /\ IF startCoords = NoPoint \/ endCoords = NoPoint
       THEN UNCHANGED creatorVars
       ELSE LET r    == Len(creatorRuns) + 1
                runs == Append(creatorRuns,
                               [pc |-> "route",
                                call |-> [fn |-> IF isCircular THEN "circular" ELSE "hiking",
                                          points |-> <<startCoords, endCoords>>],
                                fallback |-> FALSE, status |-> "finding",
                                attached |-> TRUE])
            IN  /\ IF orsLocalKey
                   THEN /\ creatorRuns' = runs
                        /\ btnGenerate' = [disabled |-> TRUE, text |-> "generating"]
                        /\ UNCHANGED <<creatorWaypoints, creatorForm>>
                   ELSE /\ creatorWaypoints' = interpolateRoute(startCoords, endCoords)
                        /\ creatorForm' = [creatorForm EXCEPT !.shown = TRUE]
                        /\ generateRoute_end(runs, r, "warning", TRUE)
                /\ UNCHANGED <<startCoords, endCoords, clickCount, isCircular>>

\* the service's answer to the creator's call: a path through the points
\* the call asked for, with a summary and the turn steps of each leg
CreatorRouteData(call) ==
    LET points == IF call.fn = "circular"
                  THEN <<call.points[1], call.points[2], call.points[1]>>
                  ELSE call.points
    IN  [coords   |-> SwapAll(points),
         distance |-> 50000,
         duration |-> 36000,
         segments |-> [i \in 1..(Len(points) - 1) |-> <<"s1">>]]

\* run r's routing call resolved with the service's answer
generateRoute_resolved(r) ==
    /\ r \in CreatorRunIds /\ creatorRuns[r].pc = "route"
    /\ LET data      == CreatorRouteData(creatorRuns[r].call)
           routeData == IF creatorRuns[r].call.fn = "circular"
                        THEN CircularResult(data) ELSE HikingResult(data)
       IN  /\ creatorWaypoints' = routeData.waypoints
           /\ creatorForm' = [shown |-> TRUE,
                              distance |-> formatDistance(routeData.distance),
                              time |-> formatDuration(routeData.duration)]
    /\ generateRoute_end(creatorRuns, r, "found", FALSE)
    /\ UNCHANGED <<startCoords, endCoords, clickCount, isCircular>>

\* run r's routing call rejected: the catch interpolates between the pins as
\* they are now; with a pin cleared, start[0] or end[0] throws a TypeError out
\* of the catch and the rest of generateRoute does not run
generateRoute_rejected(r) ==
    /\ r \in CreatorRunIds /\ creatorRuns[r].pc = "route"
    /\ IF startCoords = NoPoint \/ endCoords = NoPoint
       THEN /\ creatorRuns' = [creatorRuns EXCEPT ![r].pc = "threw"]
            /\ UNCHANGED <<creatorWaypoints, creatorForm, btnGenerate>>
       ELSE /\ creatorWaypoints' = interpolateRoute(startCoords, endCoords)
            /\ creatorForm' = [creatorForm EXCEPT !.shown = TRUE]
            /\ generateRoute_end(creatorRuns, r, "warning", TRUE)
    /\ UNCHANGED <<startCoords, endCoords, clickCount, isCircular>>

\* the 8 second timer of run r, set when the run ended:
\* if (statusEl.parentNode) statusEl.remove()
generateRoute_statusTimeout(r) ==
    /\ r \in CreatorRunIds /\ creatorRuns[r].pc = "done" /\ creatorRuns[r].attached
    /\ creatorRuns' = [creatorRuns EXCEPT ![r].attached = FALSE]
    /\ UNCHANGED <<startCoords, endCoords, clickCount, isCircular, creatorWaypoints,
                   btnGenerate, creatorForm>>

\* the creator view after initCreator; btn-generate starts disabled, as
\* clearPins leaves it
CreatorInit ==
    /\ startCoords = NoPoint
    /\ endCoords = NoPoint
    /\ clickCount = 0
    /\ isCircular = TRUE
    /\ creatorWaypoints = <<>>
    /\ btnGenerate = [disabled |-> TRUE, text |-> "idle"]
    /\ creatorForm = [shown |-> FALSE, distance |-> "", time |-> ""]
    /\ creatorRuns = <<>>

--------------------------------------------------------------------------
(* Walk Library: setWalks, openDetail, closeDetail; auditRoutes            *)

\* walks in the library at the start
MaxWalks == 3

\* WALKS_VERSION, and a version an earlier release stored
WALKS_VERSION == "1.1"
OlderVersion == "1.0"

\* invocations of auditRoutes in one behaviour
MaxAuditRuns == 2

\* pending map-render callbacks of openDetail
MaxDetailTimers == 2

\* the offset auditRoutes adds to both axes, 0.005 degrees
AuditOffset == 5

\* a stored route that leaves the car park, reaches Far and comes back
LoopPath == <<Start, NearStart, Far, Peak, Far, NearStart, Start>>

\* a stored route that never leaves the car park
StillPath == <<Start, Start, Start, Start, Start>>

\* the n-th walk of the library: a loop that ends where it starts, a linear
\* walk, a walk that ends 0.001 from its start, a walk with no end coordinate
LibraryWalk(n) ==
    LET k == n % 4
    IN  [name       |-> n,
         lat        |-> Lat(Start),
         lon        |-> Lon(Start),
         end        |-> IF k = 1 THEN Start ELSE IF k = 2 THEN Far
                        ELSE IF k = 3 THEN NearStart ELSE NoPoint,
         waypoints  |-> IF k = 1 THEN LoopPath ELSE IF k = 2 THEN <<Start, Far>>
                        ELSE IF k = 3 THEN <<>> ELSE StillPath,
         distance   |-> "3.5 km",
         time       |-> "1.5 hours",
         difficulty |-> IF n % 2 = 1 THEN "Easy" ELSE "Moderate",
         walkType   |-> IF k = 1 THEN "summit" ELSE "lake"]

Library(n) == [i \in 1..n |-> LibraryWalk(i)]

\* the filter of setWalks and applyFilters
MatchesFilters(w, filters) ==
    /\ filters.difficulty # "all" => w.difficulty = filters.difficulty
    /\ filters.type # "all" => w.walkType = filters.type

FilterWalks(ws, filters) == SelectSeq(ws, LAMBDA w : MatchesFilters(w, filters))

\* JSON.parse(JSON.stringify(w)) of a walk: its numbers are finite, its
\* other values strings and arrays of such numbers, and so every field comes
\* back as it went in; a missing coordinate (0 here) stays missing
JsonWalk(w) ==
    [name       |-> w.name,
     lat        |-> w.lat,
     lon        |-> w.lon,
     end        |-> <<Lat(w.end), Lon(w.end)>>,
     waypoints  |-> [i \in 1..Len(w.waypoints) |->
                        <<Lat(w.waypoints[i]), Lon(w.waypoints[i])>>],
     distance   |-> w.distance,
     time       |-> w.time,
     difficulty |-> w.difficulty,
     walkType   |-> w.walkType]

\* a save that writes nothing new
saveWalksLocal_keepOld(ws) == storedWalks

\* saveWalksLocal, with `ws` the module's list: what localStorage holds under
\* trail_mapper_walks afterwards, as JSON.parse would read it back
saveWalksLocal(ws) == [i \in 1..Len(ws) |-> JsonWalk(ws[i])]

\* setWalks(newWalks): assign, saveWalksLocal, filter again
setWalks(newWalks) ==
    /\ walks' = newWalks
    /\ storedWalks' = saveWalksLocal(newWalks)
    /\ storedItem' = "list"
    /\ filteredWalks' = FilterWalks(newWalks, activeFilters)

\* addWalk(walk): push, saveWalksLocal, show every walk whatever the filters
addWalk(walk) ==
    /\ walks' = Append(walks, walk)
    /\ storedWalks' = saveWalksLocal(Append(walks, walk))
    /\ storedItem' = "list"
    /\ filteredWalks' = Append(walks, walk)

\* applyFilters: the walks that match the filters as they are now
applyFilters(filters) ==
    /\ activeFilters' = filters
    /\ filteredWalks' = FilterWalks(walks, filters)
    /\ UNCHANGED <<walks, storedWalks, storedItem, storedVersion, loadPc, auditRuns,
                   auditRequests, detailActive, detailRouteType, detailTimers, detailMap>>

\* the values of the pills of the two filters
DifficultyPills == {"all", "Easy", "Moderate"}
TypePills == {"all", "summit", "lake"}

\* the click on a pill of difficulty-filter
difficultyFilterClick(value) ==
    applyFilters([activeFilters EXCEPT !.difficulty = value])

\* the click on a pill of type-filter
typeFilterClick(value) ==
    applyFilters([activeFilters EXCEPT !.type = value])

\* walks a previous visit left in the cache
MaxCached == 2

\* /data/walks.json, the bundled default set
DefaultWalks == Library(MaxCached)

\* a version check that never removes the item
CacheAfterVersionCheck_keepStale == storedItem

\* localStorage.getItem('trail_mapper_walks') after loadWalks has compared
\* the versions: a stored version other than WALKS_VERSION removes the item
CacheAfterVersionCheck ==
    IF storedVersion # WALKS_VERSION THEN "none" ELSE storedItem

\* the module's list after loadWalks has read the cache: the parsed list,
\* [] for text that does not parse, the list as it was when there is no item
WalksAfterParse ==
    IF CacheAfterVersionCheck = "list" THEN storedWalks
    ELSE IF CacheAfterVersionCheck = "other" THEN <<>>
    ELSE walks

\* loadWalks, which init calls once, up to its await or, when the cache
\* gave at least one walk, to its end
loadWalks ==
    /\ loadPc = "start"
    /\ storedVersion' = WALKS_VERSION
    /\ storedItem' = CacheAfterVersionCheck
    /\ storedWalks' = IF CacheAfterVersionCheck = "list" THEN storedWalks ELSE <<>>
    /\ walks' = WalksAfterParse
    /\ IF Len(WalksAfterParse) = 0
       THEN /\ loadPc' = "fetch"
            /\ UNCHANGED filteredWalks
       ELSE /\ loadPc' = "done"
            /\ filteredWalks' = WalksAfterParse
    /\ UNCHANGED <<activeFilters, auditRuns, auditRequests, detailActive,
                   detailRouteType, detailTimers, detailMap>>

\* fetch('/data/walks.json') and res.json() resolved: the default set
\* replaces the module's list and is saved
loadWalks_fetchResolved ==
    /\ loadPc = "fetch"
    /\ loadPc' = "done"
    /\ walks' = DefaultWalks
    /\ storedWalks' = saveWalksLocal(DefaultWalks)
    /\ storedItem' = "list"
    /\ filteredWalks' = DefaultWalks
    /\ UNCHANGED <<storedVersion, activeFilters, auditRuns, auditRequests, detailActive,
                   detailRouteType, detailTimers, detailMap>>

\* the fetch or res.json() rejected: loadWalks ends there, nothing catches it
loadWalks_fetchRejected ==
    /\ loadPc = "fetch"
    /\ loadPc' = "failed"
    /\ UNCHANGED <<walks, storedWalks, storedItem, storedVersion, filteredWalks,
                   activeFilters, auditRuns, auditRequests, detailActive,
                   detailRouteType, detailTimers, detailMap>>

\* the click on btn-import-walk with the JSON of `walk` in the text area: a
\* walk with a name and a lat is added, any other throws into the catch
importWalk_pasted(walk) ==
    /\ IF Truthy(walk.name) /\ Truthy(walk.lat)
       THEN addWalk(walk)
       ELSE UNCHANGED <<walks, storedWalks, storedItem, filteredWalks>>
    /\ UNCHANGED <<storedVersion, loadPc, activeFilters, auditRuns, auditRequests, detailActive,
                   detailRouteType, detailTimers, detailMap>>

\* the import of the library's next walk, up to MaxWalks
importWalk ==
    /\ Len(walks) < MaxWalks
    /\ importWalk_pasted(LibraryWalk(Len(walks) + 1))

\* imports in one behaviour of the pasted walks
MaxPasted == 2

\* a stored route that stays within 0.001 of the car park
TinyPath == <<Start, NearStart, Start, NearStart, Start>>

\* walks a user pastes, named n: the library's loop, its walk that never
\* leaves the car park, a loop that stays within 0.001 of it, and a walk
\* without a lat
PastedWalks(n) ==
    {[LibraryWalk(1) EXCEPT !.name = n],
     [LibraryWalk(4) EXCEPT !.name = n],
     [LibraryWalk(1) EXCEPT !.name = n, !.waypoints = TinyPath],
     [LibraryWalk(1) EXCEPT !.name = n, !.lat = 0]}

\* auditRoutes: !w.endLat || !w.endLon ||
\*   (|w.lat - w.endLat| < 0.002 && |w.lon - w.endLon| < 0.002)
AuditIsCircular(w) ==
    \/ ~Truthy(Lat(w.end))
    \/ ~Truthy(Lon(w.end))
    \/ /\ Abs(w.lat - Lat(w.end)) < EpsCircular
       /\ Abs(w.lon - Lon(w.end)) < EpsCircular

\* |wp[0] - w.lat| + |wp[1] - w.lon|
AuditDist(w, wp) == Abs(Lat(wp) - w.lat) + Abs(Lon(wp) - w.lon)

RECURSIVE FarthestWaypoint(_, _, _, _)
\* the loop over w.waypoints from index i, with the farthest point so far;
\* NoPoint is the undefined destLat, destLon the loop starts with
FarthestWaypoint(w, i, maxDist, dest) ==
    IF i > Len(w.waypoints) THEN dest
    ELSE IF AuditDist(w, w.waypoints[i]) > maxDist
    THEN FarthestWaypoint(w, i + 1, AuditDist(w, w.waypoints[i]), w.waypoints[i])
    ELSE FarthestWaypoint(w, i + 1, maxDist, dest)

\* the destination auditRoutes gives a circular walk
AuditDestination(w) ==
    IF Len(w.waypoints) > 4
    THEN FarthestWaypoint(w, 1, 0, NoPoint)
    ELSE <<w.lat + AuditOffset, w.lon + AuditOffset>>

\* the routing call auditRoutes awaits for walk w
AuditRouteCall(w) ==
    IF AuditIsCircular(w)
    THEN [fn |-> "circular", points |-> <<WalkStart(w), AuditDestination(w)>>]
    ELSE [fn |-> "hiking", points |-> <<WalkStart(w), w.end>>]

\* the answers of the routing service to a batch's call
BatchRouteDatas == {d \in OrsDatas : d.distance = 50000}

\* a loop that asks for every remaining walk at once
AuditRequestsFor_fanOut(r, i, ws) ==
    {[run |-> r, index |-> j, call |-> AuditRouteCall(ws[j])] : j \in i..Len(ws)}

\* the routing calls one iteration of run r's loop makes, at index i
AuditRequestsFor(r, i, ws) ==
    {[run |-> r, index |-> i, call |-> AuditRouteCall(ws[i])]}

AuditRunIds == 1..Len(auditRuns)

\* run r's for loop at index i, `runs` and `ws` being the runs and the walks
\* as the step has left them and `pending` the calls still out: the next
\* iteration up to its await, or setWalks(walks) after the last
auditRoutes_loop(runs, r, i, ws, pending) ==
    IF i <= Len(ws)
    THEN /\ auditRuns' = [runs EXCEPT ![r].pc = "route", ![r].i = i,
                                      ![r].log = Append(@, <<"start", ws[i].name>>)]
         /\ auditRequests' = pending \cup AuditRequestsFor(r, i, ws)
         /\ walks' = ws
         /\ UNCHANGED <<storedWalks, storedItem, filteredWalks>>
    ELSE /\ auditRuns' = [runs EXCEPT ![r].pc = "done", ![r].i = i]
         /\ auditRequests' = pending
         /\ setWalks(ws)

\* the click on btn-audit-routes, which is never disabled
auditRoutes ==
    /\ Len(auditRuns) < MaxAuditRuns
    /\ auditRoutes_loop(Append(auditRuns, [pc |-> "route", i |-> 1, total |-> Len(walks),
                                           completed |-> 0, failed |-> 0, log |-> <<>>]),
                        Len(auditRuns) + 1, 1, walks, auditRequests)
    /\ UNCHANGED <<storedVersion, loadPc, activeFilters, detailActive, detailRouteType, detailTimers, detailMap>>

\* the routing call q resolved with the service's answer `data`: the walk is
\* updated, and the loop waits 1.5 s unless this was the last walk
auditRoutes_routeResolved(q, data) ==
    /\ q \in auditRequests
    /\ LET r         == q.run
           i         == q.index
           routeData == IF q.call.fn = "circular"
                        THEN CircularResult(data) ELSE HikingResult(data)
           ws        == [walks EXCEPT ![i].waypoints = routeData.waypoints,
                                      ![i].distance = formatDistance(routeData.distance),
                                      ![i].time = formatDuration(routeData.duration)]
           runs      == [auditRuns EXCEPT ![r].completed = @ + 1,
                                          ![r].log = Append(@, <<"ok", walks[i].name>>)]
       IN  IF i < Len(walks)
           THEN /\ auditRuns' = [runs EXCEPT ![r].pc = "delay"]
                /\ auditRequests' = auditRequests \ {q}
                /\ walks' = ws
                /\ UNCHANGED <<storedWalks, storedItem, filteredWalks>>
           ELSE auditRoutes_loop(runs, r, i + 1, ws, auditRequests \ {q})
    /\ UNCHANGED <<storedVersion, loadPc, activeFilters, detailActive, detailRouteType, detailTimers, detailMap>>

\* the routing call q rejected: the catch counts and logs it, and the loop
\* goes on at once
auditRoutes_routeRejected(q) ==
    /\ q \in auditRequests
    /\ auditRoutes_loop([auditRuns EXCEPT ![q.run].failed = @ + 1,
                                          ![q.run].log = Append(@, <<"fail", walks[q.index].name>>)],
                        q.run, q.index + 1, walks, auditRequests \ {q})
    /\ UNCHANGED <<storedVersion, loadPc, activeFilters, detailActive, detailRouteType, detailTimers, detailMap>>

\* the 1.5 s of run r have passed
auditRoutes_delayElapsed(r) ==
    /\ r \in AuditRunIds /\ auditRuns[r].pc = "delay"
    /\ auditRoutes_loop(auditRuns, r, auditRuns[r].i + 1, walks, auditRequests)
    /\ UNCHANGED <<storedVersion, loadPc, activeFilters, detailActive, detailRouteType, detailTimers, detailMap>>

\* openDetail: w.endLat === w.lat && w.endLon === w.lon
DetailIsCircular(w) == Lat(w.end) = w.lat /\ Lon(w.end) = w.lon

\* openDetail(index): the badge is written at once, the map in 100 ms
openDetail(index) ==
    /\ index \in 1..Len(walks)
    /\ Len(detailTimers) < MaxDetailTimers
    /\ detailRouteType' = IF DetailIsCircular(walks[index]) THEN "circular" ELSE "linear"
    /\ detailActive' = TRUE
    /\ detailTimers' = Append(detailTimers, index)
    /\ UNCHANGED <<walks, storedWalks, storedItem, storedVersion, loadPc,
                   filteredWalks, activeFilters, auditRuns,
                   auditRequests, detailMap>>

\* the map-render callback of openDetail: the old map is removed and one is
\* created for the walk the callback closed over
openDetail_renderMap ==
    /\ detailTimers # <<>>
    /\ detailMap' = Head(detailTimers)
    /\ detailTimers' = Tail(detailTimers)
    /\ UNCHANGED <<walks, storedWalks, storedItem, storedVersion, loadPc,
                   filteredWalks, activeFilters, auditRuns,
                   auditRequests, detailActive, detailRouteType>>

\* closeDetail, which switchView calls for the back button, the Escape key
\* and every click in the navigation: the detail view hidden, the map removed
closeDetail ==
    /\ detailActive' = FALSE
    /\ detailMap' = 0
    /\ UNCHANGED <<walks, storedWalks, storedItem, storedVersion, loadPc,
                   filteredWalks, activeFilters, auditRuns,
                   auditRequests, detailRouteType, detailTimers>>

\* the library after loadWalks found n walks in the cache
LibraryInit ==
    /\ \E n \in 0..MaxWalks : /\ walks = Library(n)
                              /\ storedWalks = Library(n)
                              /\ filteredWalks = Library(n)
    /\ storedItem = "list"
    /\ storedVersion = WALKS_VERSION
    /\ loadPc = "done"
    /\ activeFilters = [difficulty |-> "all", type |-> "all"]
    /\ auditRuns = <<>>
    /\ auditRequests = {}
    /\ detailActive = FALSE
    /\ detailRouteType = "empty"
    /\ detailTimers = <<>>
    /\ detailMap = 0

\* the page as init finds it: the module's list empty, and in localStorage
\* what an earlier visit left: nothing, the list of a release with another
\* version, a list of this version (empty after a batch on an empty
\* library), or text that is no JSON
StoreInit ==
    /\ walks = <<>>
    /\ filteredWalks = <<>>
    /\ loadPc = "start"
    /\ storedVersion \in {"none", OlderVersion, WALKS_VERSION}
    /\ storedItem \in {"none", "list", "other"}
    /\ storedVersion = "none" => storedItem = "none"
    /\ \E n \in 0..MaxCached : storedWalks = IF storedItem = "list" THEN Library(n) ELSE <<>>
    /\ activeFilters = [difficulty |-> "all", type |-> "all"]
    /\ auditRuns = <<>>
    /\ auditRequests = {}
    /\ detailActive = FALSE
    /\ detailRouteType = "empty"
    /\ detailTimers = <<>>
    /\ detailMap = 0

--------------------------------------------------------------------------
(* The routing script: main                                                *)

\* walks in the script's walks.json
MaxScriptWalks == 4

\* where the script's route table puts the car parks
CarPark == <<54410, -3010>>

\* ROUTES[w.name]: every third walk has no entry; the others are a loop, or
\* a linear route for the even names
ScriptRoute(name) ==
    [defined  |-> name % 3 # 0,
     carPark  |-> CarPark,
     loop     |-> <<Far, Peak>>,
     isLinear |-> name % 2 = 0]

\* the coordinates main sends: carPark, the loop, carPark again unless linear
ScriptCoordinates(route) ==
    <<SwapAxes(route.carPark)>> \o SwapAll(route.loop)
    \o (IF route.isLinear THEN <<>> ELSE <<SwapAxes(route.carPark)>>)

\* w.lat, w.lon = carPark; for a loop w.endLat, w.endLon = carPark too
ScriptMoveCarPark(w, route) ==
    [w EXCEPT !.lat = Lat(route.carPark), !.lon = Lon(route.carPark),
              !.end = IF route.isLinear THEN @ ELSE route.carPark]

RECURSIVE ScriptSkipped(_, _)
\* how many walks from index i on main skips for want of a route before it
\* finds one that has a route, or the end of the list
ScriptSkipped(ws, i) ==
    IF i > Len(ws) \/ ScriptRoute(ws[i].name).defined THEN 0
    ELSE 1 + ScriptSkipped(ws, i + 1)

\* the fetchORS calls one iteration of main makes, at index i
ScriptRequestsFor(i, ws) == {i}

\* main's for loop from index i, with the walks, the counts and the calls
\* still out as the step has left them: walks without a route are counted as
\* failed and passed over, the next one is requested; after the last walk
\* walks.json is written
main_loop(i, ws, count, pending) ==
    LET j  == i + ScriptSkipped(ws, i)
        c  == [count EXCEPT !.fail = @ + ScriptSkipped(ws, i)]
    IN  IF j <= Len(ws)
        THEN /\ scriptPc' = "route"
             /\ scriptI' = j
             /\ scriptWalks' = [ws EXCEPT ![j] = ScriptMoveCarPark(@, ScriptRoute(@.name))]
             /\ scriptCount' = c
             /\ scriptRequests' = pending \cup ScriptRequestsFor(j, ws)
             /\ UNCHANGED scriptFile
        ELSE /\ scriptPc' = "done"
             /\ scriptI' = j
             /\ scriptWalks' = ws
             /\ scriptCount' = c
             /\ scriptRequests' = pending
             /\ scriptFile' = ws

\* the script is run
main ==
    /\ scriptPc = "start"
    /\ main_loop(1, scriptWalks, scriptCount, scriptRequests)

\* the fetchORS call for walk j resolved: the waypoints are replaced, and
\* main waits 1.6 s unless this was the last walk
main_routeResolved(j, data) ==
    /\ j \in scriptRequests
    /\ LET ws == [scriptWalks EXCEPT ![j].waypoints = SwapAll(data.coords)]
           c  == [scriptCount EXCEPT !.ok = @ + 1]
       IN  IF j < Len(scriptWalks)
           THEN /\ scriptPc' = "delay"
                /\ scriptWalks' = ws
                /\ scriptCount' = c
                /\ scriptRequests' = scriptRequests \ {j}
                /\ UNCHANGED <<scriptI, scriptFile>>
           ELSE main_loop(j + 1, ws, c, scriptRequests \ {j})

\* the fetchORS call for walk j rejected: main counts it and waits 3 s
main_routeRejected(j) ==
    /\ j \in scriptRequests
    /\ scriptPc' = "delay"
    /\ scriptCount' = [scriptCount EXCEPT !.fail = @ + 1]
    /\ scriptRequests' = scriptRequests \ {j}
    /\ UNCHANGED <<scriptWalks, scriptI, scriptFile>>

\* main's wait is over
main_delayElapsed ==
    /\ scriptPc = "delay"
    /\ main_loop(scriptI + 1, scriptWalks, scriptCount, scriptRequests)

ScriptInit ==
    /\ scriptPc = "start"
    /\ scriptWalks = Library(MaxScriptWalks)
    /\ scriptI = 0
    /\ scriptCount = [ok |-> 0, fail |-> 0]
    /\ scriptRequests = {}
    /\ scriptFile = <<>>

--------------------------------------------------------------------------
(* The language-model client: generateDirections                          *)

\* a part's text: the JSON it holds, fenced in ```json ... ``` or not;
\* "undefined" is a part without text, "blank" the empty string, "none" the
\* null extractTextFromResponse returns
GeminiText(fenced, json) == [fenced |-> fenced, json |-> json]
NoText == GeminiText(FALSE, "none")

\* the texts the language model answers with: a list of steps, an empty
\* list, an object, a string, null, and text that is no JSON
AnswerTexts ==
    {GeminiText(f, j) : f \in BOOLEAN,
                        j \in {"steps", "empty", "object", "string", "null", "garbage"}}

\* the bodies callGemini resolves with: null, a body without candidates, and
\* bodies with parts: none, the answer alone, the answer after a thought,
\* the answer before a part without text or with a blank one, a blank alone
GeminiDatas ==
    {[kind |-> "null", parts |-> <<>>], [kind |-> "nocandidates", parts |-> <<>>],
     [kind |-> "parts", parts |-> <<>>],
     [kind |-> "parts", parts |-> <<GeminiText(FALSE, "blank")>>]}
    \cup {[kind |-> "parts", parts |-> <<t>>] : t \in AnswerTexts}
    \cup {[kind |-> "parts", parts |-> <<GeminiText(FALSE, "garbage"), t>>] : t \in AnswerTexts}
    \cup {[kind |-> "parts", parts |-> <<t, GeminiText(FALSE, u)>>] :
              t \in AnswerTexts, u \in {"undefined", "blank"}}

\* the ways callGemini rejects: no connection and no local key, or a status
\* that is not ok
NoGeminiData == [kind |-> "none", parts |-> <<>>]

GeminiFailures ==
    {[kind |-> "transport", status |-> 0, data |-> NoGeminiData]}
    \cup {[kind |-> "status", status |-> st, data |-> NoGeminiData] :
              st \in Statuses \ {200}}

NoOutcome == [kind |-> "none", status |-> 0, data |-> NoGeminiData]

RECURSIVE LastText(_, _)
\* the loop of extractTextFromResponse from part i down to the first
LastText(parts, i) ==
    IF i < 1 THEN NoText
    ELSE IF parts[i].json \notin {"undefined", "blank"} THEN parts[i]
    ELSE LastText(parts, i - 1)

\* extractTextFromResponse(data), for a data that is not null
extractTextFromResponse(data) ==
    IF data.kind # "parts" \/ Len(data.parts) = 0 THEN NoText
    ELSE LastText(data.parts, Len(data.parts))

\* text.replace(/```json\n?/g, '').replace(/```\n?/g, '').trim()
CleanJson(text) == [text EXCEPT !.fenced = FALSE]

\* JSON.parse(cleanJson), for text that is JSON
JsonParse(text) ==
    IF text.json = "steps" THEN Directions("list", EnrichedSteps)
    ELSE IF text.json = "empty" THEN Directions("list", <<>>)
    ELSE Directions(text.json, <<>>)

\* what generateDirections returns once callGemini has resolved with data:
\* null data throws in extractTextFromResponse and text that is no JSON
\* throws in JSON.parse, both into the catch
generateDirections_return(data) ==
    IF data.kind = "null" THEN Directions("list", <<>>)
    ELSE IF extractTextFromResponse(data) = NoText THEN Directions("list", <<>>)
    ELSE IF CleanJson(extractTextFromResponse(data)).json = "garbage"
    THEN Directions("list", <<>>)
    ELSE JsonParse(CleanJson(extractTextFromResponse(data)))

\* everything a call of generateDirections can resolve with
DirectionResults == {generateDirections_return(data) : data \in GeminiDatas}

\* the lists among them: the steps asked for, and the empty list of a failure
DirectionLists == {d \in DirectionResults : d.kind = "list"}

\* the waypoints aiGenerate passes: generatedWaypoints, always a list
DirectionWaypoints == {<<>>, <<Start>>, <<Start, Far>>, LoopPath}

\* generateDirections up to its await of callGemini: the prompt reads
\* waypoints.length, waypoints[0] and the last waypoint
generateDirections ==
    /\ dirPc = "idle"
    /\ dirPc' = "call"
    /\ UNCHANGED <<dirWaypoints, dirOutcome, dirResult>>

\* callGemini resolved with data
generateDirections_callResolved(data) ==
    /\ dirPc = "call"
    /\ dirPc' = "returned"
    /\ dirOutcome' = [kind |-> "data", status |-> 200, data |-> data]
    /\ dirResult' = generateDirections_return(data)
    /\ UNCHANGED dirWaypoints

\* callGemini rejected: the catch returns []
generateDirections_callRejected(outcome) ==
    /\ dirPc = "call"
    /\ dirPc' = "returned"
    /\ dirOutcome' = outcome
    /\ dirResult' = Directions("list", <<>>)
    /\ UNCHANGED dirWaypoints

DirectionsInit ==
    /\ dirPc = "idle"
    /\ dirWaypoints \in DirectionWaypoints
    /\ dirOutcome = NoOutcome
    /\ dirResult = NoDirections

DirectionsIdle ==
    /\ dirPc = "idle"
    /\ dirWaypoints = <<>>
    /\ dirOutcome = NoOutcome
    /\ dirResult = NoDirections

--------------------------------------------------------------------------
(* The formatting functions called on their own                            *)

\* distances in tenths of a metre: around 0.5 m, 950 m, from 999.4 m up to
\* 1000 m, the ties of the first decimal of a kilometre, 12345 m
FormatMeters ==
    {0, 4, 5, 14, 15, 9500, 9994, 9995, 9996, 9999, 10000, 10499, 10500, 10501,
     11500, 12500, 50000, 99499, 99500, 123450}

\* durations in tenths of a second: around half a minute, 1800 s, from
\* 3569 s up to 3600 s, the ties of the first decimal of an hour, 5400 s
FormatSeconds ==
    {0, 290, 300, 310, 18000, 35690, 35700, 35990, 35999, 36000, 37790,
     37800, 37810, 54000, 70200, 359990, 360000}

\* formatDistance(meters) is called
formatDistance_call ==
    /\ fmtDistance = ""
    /\ fmtDistance' = formatDistance(fmtMeters)
    /\ UNCHANGED <<fmtMeters, fmtSeconds, fmtDuration>>

\* formatDuration(seconds) is called
formatDuration_call ==
    /\ fmtDuration = ""
    /\ fmtDuration' = formatDuration(fmtSeconds)
    /\ UNCHANGED <<fmtMeters, fmtSeconds, fmtDistance>>

FormatInit ==
    /\ fmtMeters \in FormatMeters
    /\ fmtSeconds \in FormatSeconds
    /\ fmtDistance = ""
    /\ fmtDuration = ""

FormatIdle ==
    /\ fmtMeters = 0
    /\ fmtSeconds = 0
    /\ fmtDistance = ""
    /\ fmtDuration = ""

--------------------------------------------------------------------------
(* The proxy endpoint: handler (api/ors.js) *)

\* the methods a request arrives with
Methods == {"OPTIONS", "POST", "GET"}

\* the request bodies: the coordinates of a linear and of a circular request
ProxyBodies == {Path2, Path3}

ORS_ENDPOINT == "direct"

\* A body as it travels: JSON text written without spaces ("compact") or
\* with them ("spaced"), text that is not JSON ("text"), or nothing at all
\* ("empty").  value is what the text says.
Body(form, value) == [form |-> form, value |-> value]
NoBody == Body("empty", "none")

\* the answers of the routing service: a route, an error object, a gateway's
\* error page, an empty body
UpstreamBodies ==
    { Body(f, v) : f \in {"compact", "spaced"}, v \in {"route", "error"} }
        \cup {Body("text", "page"), NoBody}

UpstreamStatuses == {200, 201, 400, 429, 502}

UpstreamResponses == [status : UpstreamStatuses, body : UpstreamBodies]

NoResponse == [status |-> 0, body |-> NoBody]

\* Response.ok
ResponseOk(response) == response.status >= 200 /\ response.status <= 299

\* response.json() resolves iff the body is JSON text
IsJson(body) == body.form \in {"compact", "spaced"}

\* res.status(status).json(value): JSON.stringify writes no spaces
ResJson(status, value) == [status |-> status, body |-> Body("compact", value)]

\* res.status(status).end()
ResEnd(status) == [status |-> status, body |-> NoBody]

\* lines 24-30: what the handler answers once response.json() has resolved
handler_relay(response) ==
    IF ~ResponseOk(response)
    THEN ResJson(response.status, response.body.value)
    ELSE ResJson(200, response.body.value)

\* lines 1-22: the handler up to its first await
handler(method, body) ==
    /\ proxyPc = "idle"
    /\ proxyReq' = [method |-> method, body |-> body]
    /\ proxyCors' = TRUE
    /\ UNCHANGED <<proxyKey, proxyResponse>>
    /\ IF method = "OPTIONS"
       THEN proxyRes' = ResEnd(200) /\ proxyPc' = "done" /\ UNCHANGED proxySent
       ELSE IF method # "POST"
       THEN /\ proxyRes' = ResJson(405, "Method not allowed")
            /\ proxyPc' = "done" /\ UNCHANGED proxySent
       ELSE IF ~proxyKey
       THEN /\ proxyRes' = ResJson(500, "ORS API key not configured")
            /\ proxyPc' = "done" /\ UNCHANGED proxySent
       ELSE /\ proxySent' = Append(proxySent,
                [endpoint |-> ORS_ENDPOINT, authorization |-> proxyKey,
                 body |-> body])
            /\ proxyPc' = "fetch"
            /\ UNCHANGED proxyRes

\* line 15: fetch resolved with the routing service's response
handler_fetchResolved(response) ==
    /\ proxyPc = "fetch"
    /\ proxyResponse' = response
    /\ proxyPc' = "json"
    /\ UNCHANGED <<proxyKey, proxyReq, proxyCors, proxySent, proxyRes>>

\* lines 15, 31-33: fetch rejected
handler_fetchRejected ==
    /\ proxyPc = "fetch"
    /\ proxyRes' = ResJson(500, "fetch failed")
    /\ proxyPc' = "done"
    /\ UNCHANGED <<proxyKey, proxyReq, proxyCors, proxySent, proxyResponse>>

\* lines 24-33: response.json() settled
handler_jsonSettled ==
    /\ proxyPc = "json"
    /\ proxyRes' = IF IsJson(proxyResponse.body)
                   THEN handler_relay(proxyResponse)
                   ELSE ResJson(500, "not json")
    /\ proxyPc' = "done"
    /\ UNCHANGED <<proxyKey, proxyReq, proxyCors, proxySent, proxyResponse>>

\* the function is invoked anew for the next request
handler_nextRequest ==
    /\ proxyPc = "done"
    /\ proxyPc' = "idle"
    /\ proxyReq' = [method |-> "none", body |-> <<>>]
    /\ proxyCors' = FALSE
    /\ proxySent' = <<>>
    /\ proxyResponse' = NoResponse
    /\ proxyRes' = ResEnd(0)
    /\ UNCHANGED proxyKey

ProxyIdle ==
    /\ proxyPc = "idle"
    /\ proxyKey = FALSE
    /\ proxyReq = [method |-> "none", body |-> <<>>]
    /\ proxyCors = FALSE
    /\ proxySent = <<>>
    /\ proxyResponse = NoResponse
    /\ proxyRes = ResEnd(0)

\* a deployment with or without ORS_API_KEY in its environment
ProxyInit ==
    /\ proxyPc = "idle"
    /\ proxyKey \in BOOLEAN
    /\ proxyReq = [method |-> "none", body |-> <<>>]
    /\ proxyCors = FALSE
    /\ proxySent = <<>>
    /\ proxyResponse = NoResponse
    /\ proxyRes = ResEnd(0)

--------------------------------------------------------------------------
(* The creator's and AI Studio's way into the library                      *)

\* walks the creator adds to the library in one behaviour
MaxCreatorAdds == 1

\* buildWalkObject with the form's defaults: no name typed, the distance and
\* time generateRoute wrote, the first option of each select
buildWalkObject ==
    [name       |-> 0,
     lat        |-> Lat(startCoords),
     lon        |-> Lon(startCoords),
     end        |-> IF isCircular THEN startCoords ELSE endCoords,
     waypoints  |-> creatorWaypoints,
     distance   |-> creatorForm.distance,
     time       |-> creatorForm.time,
     difficulty |-> "Easy",
     walkType   |-> "summit"]

\* the click on btn-add-library, in the form generateRoute shows: with the
\* car park cleared, or the destination of a linear walk, startCoords[0] or
\* endCoords[0] throws and nothing is added
addToLibrary ==
    /\ creatorForm.shown
    /\ Len(walks) < MaxCreatorAdds
    /\ IF startCoords = NoPoint \/ (~isCircular /\ endCoords = NoPoint)
       THEN UNCHANGED <<walks, storedWalks, storedItem, filteredWalks>>
       ELSE addWalk(buildWalkObject)
    /\ UNCHANGED <<storedVersion, loadPc, activeFilters, auditRuns, auditRequests,
                   detailActive, detailRouteType, detailTimers, detailMap>>

\* walks AI Studio adds to the library in one behaviour
MaxAiAdds == 1

\* the walk object of run r as the library sees it, named after its run:
\* the fields the library's walks have here
AiLibraryWalk(runs, r) ==
    [name       |-> r,
     lat        |-> runs[r].walk.lat,
     lon        |-> runs[r].walk.lon,
     end        |-> runs[r].walk.end,
     waypoints  |-> runs[r].walk.waypoints,
     distance   |-> runs[r].walk.distance,
     time       |-> runs[r].walk.time,
     difficulty |-> "Easy",
     walkType   |-> "summit"]

\* exportAIWalk, the click on btn-ai-export among the buttons of ai-result:
\* the JSON of generatedWalk as it is now is shown and copied
exportAIWalk ==
    /\ aiResultShown
    /\ aiJsonOutput' = IF generatedWalk = 0 THEN aiJsonOutput
                       ELSE <<aiRuns[generatedWalk].walk>>
    /\ UNCHANGED <<aiPrompt, aiDraft, aiRuns, generatedWalk, generatedWaypoints,
                   aiBtnDisabled, aiStatus, aiResultShown>>

\* addAIWalkToLibrary, the click on btn-ai-add-library among the buttons of
\* ai-result: addWalk(generatedWalk) pushes the object itself and saves the
\* list as it is now
addAIWalkToLibrary ==
    /\ aiResultShown
    /\ Len(walks) < MaxAiAdds
    /\ IF generatedWalk = 0
       THEN UNCHANGED <<walks, storedWalks, storedItem, filteredWalks>>
       ELSE addWalk(AiLibraryWalk(aiRuns, generatedWalk))
    /\ UNCHANGED <<storedVersion, loadPc, activeFilters, auditRuns, auditRequests,
                   detailActive, detailRouteType, detailTimers, detailMap>>

\* a step of aiGenerate seen from the library: the walks added from AI
\* Studio are the runs' own objects, so the module's lists show what the run
\* has just assigned; localStorage keeps what the last save wrote
AiLibraryFollows ==
    /\ walks' = [i \in 1..Len(walks) |-> AiLibraryWalk(aiRuns', walks[i].name)]
    /\ filteredWalks' = [i \in 1..Len(filteredWalks) |->
                            AiLibraryWalk(aiRuns', filteredWalks[i].name)]
    /\ UNCHANGED <<storedWalks, storedItem, storedVersion, loadPc, activeFilters,
                   auditRuns, auditRequests, detailActive, detailRouteType,
                   detailTimers, detailMap>>

\* the drafts of the behaviours that hand a walk over: a loop with its
\* destination, with or without via points and directions
HandOverDrafts ==
    {d \in Drafts : d.end = Start /\ d.isCircular = "true" /\ d.destination = Far}

AiHandOverInit ==
    /\ aiPrompt = FALSE
    /\ aiDraft \in HandOverDrafts
    /\ aiRuns = <<>>
    /\ generatedWalk = 0
    /\ generatedWaypoints = <<>>
    /\ aiBtnDisabled = FALSE
    /\ aiStatus = "hidden"
    /\ aiResultShown = FALSE
    /\ aiJsonOutput = <<>>

--------------------------------------------------------------------------
(* Specifications *)

OrsIdle ==
    /\ orsPc = "idle"
    /\ orsKind = "none"
    /\ orsLocalKey = FALSE
    /\ orsRequests = <<>>
    /\ orsInTry = FALSE
    /\ orsProxySeen = [type |-> "none", status |-> 0]
    /\ orsArgs = [start |-> Start, end |-> Start, via |-> <<>>]
    /\ orsData = NoData
    /\ orsResult = NoResult

AiIdle ==
    /\ aiPrompt = FALSE
    /\ aiDraft = CHOOSE d \in Drafts : TRUE
    /\ aiRuns = <<>>
    /\ generatedWalk = 0
    /\ generatedWaypoints = <<>>
    /\ aiBtnDisabled = FALSE
    /\ aiStatus = "hidden"
    /\ aiResultShown = FALSE
    /\ aiJsonOutput = <<>>

\* the library of a page whose loadWalks found no cache and could not fetch
LibraryIdle ==
    /\ walks = <<>>
    /\ storedWalks = <<>>
    /\ storedItem = "none"
    /\ storedVersion = WALKS_VERSION
    /\ loadPc = "failed"
    /\ filteredWalks = <<>>
    /\ activeFilters = [difficulty |-> "all", type |-> "all"]
    /\ auditRuns = <<>>
    /\ auditRequests = {}
    /\ detailActive = FALSE
    /\ detailRouteType = "empty"
    /\ detailTimers = <<>>
    /\ detailMap = 0

\* the variables each view leaves alone
NotOrs     == <<aiVars, creatorVars, libraryVars, scriptVars, dirVars, fmtVars, proxyVars>>
NotAi      == <<orsVars, creatorVars, libraryVars, scriptVars, dirVars, fmtVars, proxyVars>>
NotCreator == <<orsVars, aiVars, libraryVars, scriptVars, dirVars, fmtVars, proxyVars>>
NotLibrary == <<orsVars, aiVars, creatorVars, scriptVars, dirVars, fmtVars, proxyVars>>
NotScript  == <<orsVars, aiVars, creatorVars, libraryVars, dirVars, fmtVars, proxyVars>>
NotDirections == <<orsVars, aiVars, creatorVars, libraryVars, scriptVars, fmtVars,
                   proxyVars>>
NotFormat  == <<orsVars, aiVars, creatorVars, libraryVars, scriptVars, dirVars,
                proxyVars>>
NotProxy   == <<orsVars, aiVars, creatorVars, libraryVars, scriptVars, dirVars,
                fmtVars>>

OrsNext ==
    \/ \E end \in Points, via \in {<<>>, <<Far>>, <<NearStart, Far>>} :
            fetchHikingRoute(Start, end, via) /\ UNCHANGED NotOrs
    \/ \E dest \in Points : fetchCircularRoute(Start, dest) /\ UNCHANGED NotOrs
    \/ \E o \in FetchOutcomes, d \in OrsDatas : callORS(o, d) /\ UNCHANGED NotOrs
    \/ \E o \in FetchOutcomes, d \in OrsDatas : callORSDirect(o, d) /\ UNCHANGED NotOrs

AiNext ==
    \/ presetClick /\ UNCHANGED NotAi
    \/ \E t \in {"click", "enter"} : aiGenerate(t) /\ UNCHANGED NotAi
    \/ \E r \in 1..MaxAIRuns : aiGenerate_walkResolved(r) /\ UNCHANGED NotAi
    \/ \E r \in 1..MaxAIRuns : aiGenerate_walkRejected(r) /\ UNCHANGED NotAi
    \/ \E r \in 1..MaxAIRuns, d \in AiRouteDatas :
            aiGenerate_routeResolved(r, d) /\ UNCHANGED NotAi
    \/ \E r \in 1..MaxAIRuns : aiGenerate_routeRejected(r) /\ UNCHANGED NotAi
    \/ \E r \in 1..MaxAIRuns, dirs \in DirectionLists :
            aiGenerate_directionsResolved(r, dirs) /\ UNCHANGED NotAi

CreatorNext ==
    \/ \E p \in ClickPoints : creatorMapClick(p) /\ UNCHANGED NotCreator
    \/ routeCircularClick /\ UNCHANGED NotCreator
    \/ routeLinearClick /\ UNCHANGED NotCreator
    \/ clearPins /\ UNCHANGED NotCreator
    \/ generateRoute /\ UNCHANGED NotCreator
    \/ \E r \in 1..MaxCreatorRuns : generateRoute_resolved(r) /\ UNCHANGED NotCreator
    \/ \E r \in 1..MaxCreatorRuns : generateRoute_rejected(r) /\ UNCHANGED NotCreator
    \/ \E r \in 1..MaxCreatorRuns : generateRoute_statusTimeout(r) /\ UNCHANGED NotCreator
    \/ addToLibrary /\ UNCHANGED <<orsVars, aiVars, creatorVars, scriptVars, dirVars, fmtVars, proxyVars>>

DetailNext ==
    \/ \E i \in 1..MaxWalks : openDetail(i) /\ UNCHANGED NotLibrary
    \/ openDetail_renderMap /\ UNCHANGED NotLibrary
    \/ closeDetail /\ UNCHANGED NotLibrary

\* one call of the routing client
InitORS == OrsInit /\ AiIdle /\ CreatorInit /\ LibraryIdle /\ ScriptInit
    /\ DirectionsIdle /\ FormatIdle /\ ProxyIdle
SpecORS == InitORS /\ [][OrsNext]_vars

\* the AI Studio view, the language model answering the request for
\* directions with a list
InitAI == AiInit /\ OrsIdle /\ CreatorInit /\ LibraryIdle /\ ScriptInit
    /\ DirectionsIdle /\ FormatIdle /\ ProxyIdle
SpecAI == InitAI /\ [][AiNext]_vars

\* the AI Studio view, the language model answering the request for
\* directions with whatever it can answer
InitAIEnrich == AiInit /\ OrsIdle /\ CreatorInit /\ LibraryIdle /\ ScriptInit
    /\ DirectionsIdle /\ FormatIdle /\ ProxyIdle
AiEnrichNext ==
    \/ presetClick /\ UNCHANGED NotAi
    \/ \E t \in {"click", "enter"} : aiGenerate(t) /\ UNCHANGED NotAi
    \/ \E r \in 1..MaxAIRuns : aiGenerate_walkResolved(r) /\ UNCHANGED NotAi
    \/ \E r \in 1..MaxAIRuns : aiGenerate_walkRejected(r) /\ UNCHANGED NotAi
    \/ \E r \in 1..MaxAIRuns, d \in AiRouteDatas :
            aiGenerate_routeResolved(r, d) /\ UNCHANGED NotAi
    \/ \E r \in 1..MaxAIRuns : aiGenerate_routeRejected(r) /\ UNCHANGED NotAi
    \/ \E r \in 1..MaxAIRuns, dirs \in DirectionResults :
            aiGenerate_directionsResolved(r, dirs) /\ UNCHANGED NotAi
SpecAIEnrich == InitAIEnrich /\ [][AiEnrichNext]_vars

\* the AI Studio view with the buttons of its result: Export and Add to Library
NotAiNorLibrary == <<orsVars, creatorVars, scriptVars, dirVars, fmtVars, proxyVars>>
InitAIHandOver == AiHandOverInit /\ OrsIdle /\ CreatorInit /\ LibraryIdle /\ ScriptInit
    /\ DirectionsIdle /\ FormatIdle /\ ProxyIdle
AiHandOverNext ==
    \/ presetClick /\ UNCHANGED NotAi
    \/ \E t \in {"click", "enter"} : aiGenerate(t) /\ UNCHANGED NotAi
    \/ \E r \in 1..MaxAIRuns :
            aiGenerate_walkResolved(r) /\ AiLibraryFollows /\ UNCHANGED NotAiNorLibrary
    \/ \E r \in 1..MaxAIRuns : aiGenerate_walkRejected(r) /\ UNCHANGED NotAi
    \/ \E r \in 1..MaxAIRuns, d \in AiRouteDatas :
            aiGenerate_routeResolved(r, d) /\ AiLibraryFollows /\ UNCHANGED NotAiNorLibrary
    \/ \E r \in 1..MaxAIRuns :
            aiGenerate_routeRejected(r) /\ AiLibraryFollows /\ UNCHANGED NotAiNorLibrary
    \/ \E r \in 1..MaxAIRuns, dirs \in DirectionLists :
            aiGenerate_directionsResolved(r, dirs) /\ AiLibraryFollows
            /\ UNCHANGED NotAiNorLibrary
    \/ exportAIWalk /\ UNCHANGED NotAi
    \/ addAIWalkToLibrary
            /\ UNCHANGED <<orsVars, aiVars, creatorVars, scriptVars, dirVars, fmtVars, proxyVars>>
SpecAIHandOver == InitAIHandOver /\ [][AiHandOverNext]_vars

\* the creator view, with or without a locally stored key
InitCreator == CreatorInit /\ OrsInit /\ AiIdle /\ LibraryIdle /\ ScriptInit
    /\ DirectionsIdle /\ FormatIdle /\ ProxyIdle
SpecCreator == InitCreator /\ [][CreatorNext]_vars

\* batch re-routing: the settings view's auditRoutes and the routing script.
\* The page and the script share nothing (the page's list and localStorage,
\* the script's walks.json on disk), so a behaviour follows one of the two.
InitBatch == LibraryInit /\ ScriptInit /\ OrsIdle /\ AiIdle /\ CreatorInit
    /\ DirectionsIdle /\ FormatIdle /\ ProxyIdle
BatchNext ==
    \/ auditRoutes /\ scriptPc = "start" /\ UNCHANGED NotLibrary
    \/ \E q \in auditRequests : \E d \in BatchRouteDatas :
            auditRoutes_routeResolved(q, d) /\ UNCHANGED NotLibrary
    \/ \E q \in auditRequests : auditRoutes_routeRejected(q) /\ UNCHANGED NotLibrary
    \/ \E r \in 1..MaxAuditRuns : auditRoutes_delayElapsed(r) /\ UNCHANGED NotLibrary
    \/ main /\ auditRuns = <<>> /\ UNCHANGED NotScript
    \/ \E j \in 1..MaxScriptWalks, d \in BatchRouteDatas :
            main_routeResolved(j, d) /\ UNCHANGED NotScript
    \/ \E j \in 1..MaxScriptWalks : main_routeRejected(j) /\ UNCHANGED NotScript
    \/ main_delayElapsed /\ UNCHANGED NotScript
SpecBatch == InitBatch /\ [][BatchNext]_vars

\* batch re-routings of the settings view in one behaviour of the store
MaxStoreAudits == 1

\* the Walk Store from the page's load on: loadWalks, the settings view's
\* import and its batch re-routing. A batch started on a list that the
\* pending fetch of the default set is about to replace is left out.
InitStore == StoreInit /\ ScriptInit /\ OrsIdle /\ AiIdle /\ CreatorInit
    /\ DirectionsIdle /\ FormatIdle /\ ProxyIdle
StoreNext ==
    \/ loadWalks /\ UNCHANGED NotLibrary
    \/ loadWalks_fetchResolved /\ UNCHANGED NotLibrary
    \/ loadWalks_fetchRejected /\ UNCHANGED NotLibrary
    \/ importWalk /\ loadPc # "start" /\ UNCHANGED NotLibrary
    \/ /\ auditRoutes
       /\ Len(auditRuns) < MaxStoreAudits
       /\ loadPc \in {"done", "failed"} \/ (loadPc = "fetch" /\ walks = <<>>)
       /\ UNCHANGED NotLibrary
    \/ \E q \in auditRequests : \E d \in BatchRouteDatas :
            auditRoutes_routeResolved(q, d) /\ UNCHANGED NotLibrary
    \/ \E q \in auditRequests : auditRoutes_routeRejected(q) /\ UNCHANGED NotLibrary
    \/ \E r \in 1..MaxAuditRuns : auditRoutes_delayElapsed(r) /\ UNCHANGED NotLibrary
SpecStore == InitStore /\ [][StoreNext]_vars

\* the names of the walks of a list
Names(ws) == {ws[i].name : i \in 1..Len(ws)}

\* the walks of a list that were pasted in: their names come after the
\* names of the library's own walks
AddedIn(ws) == {n \in Names(ws) : n > MaxWalks}

\* the Walk Store from the page's load on, with walks pasted in while and
\* after loadWalks runs, and the batch re-routing
InitAdd == StoreInit /\ ScriptInit /\ OrsIdle /\ AiIdle /\ CreatorInit
    /\ DirectionsIdle /\ FormatIdle /\ ProxyIdle
AddNext ==
    \/ loadWalks /\ UNCHANGED NotLibrary
    \/ loadWalks_fetchResolved /\ UNCHANGED NotLibrary
    \/ loadWalks_fetchRejected /\ UNCHANGED NotLibrary
    \/ \E w \in PastedWalks(MaxWalks + 1 + Cardinality(AddedIn(walks))) :
            /\ importWalk_pasted(w)
            /\ loadPc # "start"
            /\ Cardinality(AddedIn(walks)) < MaxPasted
            /\ UNCHANGED NotLibrary
    \/ /\ auditRoutes
       /\ Len(auditRuns) < MaxStoreAudits
       /\ loadPc \in {"done", "failed"} \/ (loadPc = "fetch" /\ walks = <<>>)
       /\ UNCHANGED NotLibrary
    \/ \E q \in auditRequests : \E d \in BatchRouteDatas :
            auditRoutes_routeResolved(q, d) /\ UNCHANGED NotLibrary
    \/ \E q \in auditRequests : auditRoutes_routeRejected(q) /\ UNCHANGED NotLibrary
    \/ \E r \in 1..MaxAuditRuns : auditRoutes_delayElapsed(r) /\ UNCHANGED NotLibrary
SpecAdd == InitAdd /\ [][AddNext]_vars

\* the library view's filters, with walks imported and a batch re-routing
InitFilters == LibraryInit /\ ScriptInit /\ OrsIdle /\ AiIdle /\ CreatorInit
    /\ DirectionsIdle /\ FormatIdle /\ ProxyIdle
FiltersNext ==
    \/ \E v \in DifficultyPills : difficultyFilterClick(v) /\ UNCHANGED NotLibrary
    \/ \E v \in TypePills : typeFilterClick(v) /\ UNCHANGED NotLibrary
    \/ importWalk /\ UNCHANGED NotLibrary
    \/ auditRoutes /\ Len(auditRuns) < MaxStoreAudits /\ UNCHANGED NotLibrary
    \/ \E q \in auditRequests : \E d \in BatchRouteDatas :
            auditRoutes_routeResolved(q, d) /\ UNCHANGED NotLibrary
    \/ \E q \in auditRequests : auditRoutes_routeRejected(q) /\ UNCHANGED NotLibrary
    \/ \E r \in 1..MaxAuditRuns : auditRoutes_delayElapsed(r) /\ UNCHANGED NotLibrary
SpecFilters == InitFilters /\ [][FiltersNext]_vars

\* a library made of pasted walks, and its batch re-routing
InitPasted == LibraryIdle /\ ScriptInit /\ OrsIdle /\ AiIdle /\ CreatorInit
    /\ DirectionsIdle /\ FormatIdle /\ ProxyIdle
PastedNext ==
    \/ \E w \in PastedWalks(Len(walks) + 1) :
            importWalk_pasted(w) /\ Len(walks) < MaxPasted /\ UNCHANGED NotLibrary
    \/ auditRoutes /\ Len(auditRuns) < MaxStoreAudits /\ UNCHANGED NotLibrary
    \/ \E q \in auditRequests : \E d \in BatchRouteDatas :
            auditRoutes_routeResolved(q, d) /\ UNCHANGED NotLibrary
    \/ \E q \in auditRequests : auditRoutes_routeRejected(q) /\ UNCHANGED NotLibrary
    \/ \E r \in 1..MaxAuditRuns : auditRoutes_delayElapsed(r) /\ UNCHANGED NotLibrary
SpecPasted == InitPasted /\ [][PastedNext]_vars

\* one call of generateDirections
InitDirections == DirectionsInit /\ FormatIdle /\ ProxyIdle
    /\ OrsIdle /\ AiIdle /\ CreatorInit /\ LibraryIdle /\ ScriptInit
DirectionsNext ==
    \/ generateDirections /\ UNCHANGED NotDirections
    \/ \E data \in GeminiDatas :
            generateDirections_callResolved(data) /\ UNCHANGED NotDirections
    \/ \E outcome \in GeminiFailures :
            generateDirections_callRejected(outcome) /\ UNCHANGED NotDirections
SpecDirections == InitDirections /\ [][DirectionsNext]_vars

\* one call each of the two formatting functions
InitFormat == FormatInit /\ DirectionsIdle /\ ProxyIdle
    /\ OrsIdle /\ AiIdle /\ CreatorInit /\ LibraryIdle /\ ScriptInit
FormatNext ==
    \/ formatDistance_call /\ UNCHANGED NotFormat
    \/ formatDuration_call /\ UNCHANGED NotFormat
SpecFormat == InitFormat /\ [][FormatNext]_vars

\* the proxy endpoint
InitProxy == ProxyInit /\ DirectionsIdle /\ FormatIdle
    /\ OrsIdle /\ AiIdle /\ CreatorInit /\ LibraryIdle /\ ScriptInit
ProxyNext ==
    \/ \E method \in Methods, body \in ProxyBodies :
            handler(method, body) /\ UNCHANGED NotProxy
    \/ \E response \in UpstreamResponses :
            handler_fetchResolved(response) /\ UNCHANGED NotProxy
    \/ handler_fetchRejected /\ UNCHANGED NotProxy
    \/ handler_jsonSettled /\ UNCHANGED NotProxy
    \/ handler_nextRequest /\ UNCHANGED NotProxy
SpecProxy == InitProxy /\ [][ProxyNext]_vars

\* the creator view and the AI Studio view when every network call settles:
\* a pending routing or language-model call resolves or rejects in the end
CreatorCallSettles(r) ==
    (generateRoute_resolved(r) \/ generateRoute_rejected(r)) /\ UNCHANGED NotCreator
SpecCreatorFair ==
    SpecCreator /\ \A r \in 1..MaxCreatorRuns : WF_vars(CreatorCallSettles(r))

AiCallSettles(r) ==
    /\ \/ aiGenerate_walkResolved(r)
       \/ aiGenerate_walkRejected(r)
       \/ \E d \in AiRouteDatas : aiGenerate_routeResolved(r, d)
       \/ aiGenerate_routeRejected(r)
       \/ \E dirs \in DirectionResults : aiGenerate_directionsResolved(r, dirs)
    /\ UNCHANGED NotAi
SpecAIFair ==
    SpecAIEnrich /\ \A r \in 1..MaxAIRuns : WF_vars(AiCallSettles(r))

\* the library's detail view
InitDetail == LibraryInit /\ ScriptInit /\ OrsIdle /\ AiIdle /\ CreatorInit
    /\ DirectionsIdle /\ FormatIdle /\ ProxyIdle
SpecDetail == InitDetail /\ [][DetailNext]_vars

--------------------------------------------------------------------------
(* Properties *)

\* the runs of aiGenerate whose routing step is over
AiRouted == {r \in AiRunIds : aiRuns[r].pc \in {"dirs", "done"}}

\* walk.endLat && walk.endLon
EndKnown(walk) == Truthy(Lat(walk.end)) /\ Truthy(Lon(walk.end))

\* the stored end is within the circular threshold of the start
EndWithinEps(walk) ==
    /\ Abs(walk.lat - Lat(walk.end)) < EpsCircular
    /\ Abs(walk.lon - Lon(walk.end)) < EpsCircular

\* the stored end is farther from the start than the circular threshold
EndBeyondEps(walk) ==
    \/ Abs(walk.lat - Lat(walk.end)) > EpsCircular
    \/ Abs(walk.lon - Lon(walk.end)) > EpsCircular

\* the draft of the circular scenario: isCircular = true, classified
\* circular, no via-points, a destination hint distinct from the start
CircularDraftWithDestination ==
    /\ aiDraft.isCircular = "true"
    /\ AiIsCircular(aiDraft)
    /\ ~HasLoop(aiDraft)
    /\ Truthy(Lat(aiDraft.destination)) /\ Truthy(Lon(aiDraft.destination))
    /\ Distinct(aiDraft.destination, WalkStart(aiDraft))

\* C1: when the routing call of an aiGenerate run has failed, the walk has
\* its waypoints set and not empty; they are at least 2 points if the
\* draft's end is known (both coordinates given) and differs from the start,
\* and at least 1 point if the end equals the start and the draft has no
\* destination hint.
C1_FallbackInvariant ==
    \A r \in AiRouted :
        aiRuns[r].fallback =>
            LET walk == aiRuns[r].walk
            IN  /\ walk.hasWaypoints
                /\ Len(walk.waypoints) >= 1
                /\ (EndKnown(aiDraft) /\ aiDraft.end # WalkStart(aiDraft))
                        => Len(walk.waypoints) >= 2
                /\ (aiDraft.end = WalkStart(aiDraft) /\ aiDraft.destination = NoPoint)
                        => Len(walk.waypoints) >= 1

\* a run finished after its routing call failed, for a draft without
\* via-points whose end is known and far from the start: the two-point line
C1_Witness ==
    \E r \in AiRunIds :
        /\ aiRuns[r].pc = "done" /\ aiRuns[r].fallback
        /\ ~HasLoop(aiDraft) /\ aiDraft.end = Far
        /\ aiRuns[r].walk.waypoints = <<Start, Far>>

\* C2: for a circular draft (isCircular = true) with a destination hint
\* distinct from the start, when the routing call fails the waypoints are
\* exactly [start, destination hint].
C2_CircularFallbackIsLineToDestination ==
    \A r \in AiRouted :
        (aiRuns[r].fallback /\ CircularDraftWithDestination)
            => aiRuns[r].walk.waypoints = <<WalkStart(aiDraft), aiDraft.destination>>

\* C3: for a circular draft (start, destination hint, isCircular = true)
\* whose routing call succeeds with a path, a distance and a duration, the
\* walk has waypoints equal to the path, distance = formatDistance(distance),
\* time = formatDuration(duration), and an end coordinate equal to its start
\* (within the circular threshold).
C3_CircularSuccess ==
    \A r \in AiRouted :
        (~aiRuns[r].fallback /\ CircularDraftWithDestination) =>
            LET walk == aiRuns[r].walk
                data == aiRuns[r].routeData
            IN  /\ walk.waypoints = SwapAll(data.coords)
                /\ walk.distance = formatDistance(data.distance)
                /\ walk.time = formatDuration(data.duration)
                /\ EndWithinEps(walk)

\* C4: a run of aiGenerate or of the creator's generateRoute that ended with
\* the fallback waypoints showed a warning status when it ended, not the
\* success status.
C4_FallbackSurfacesWarning ==
    /\ \A r \in AiRunIds :
          (aiRuns[r].pc = "done" /\ aiRuns[r].fallback) => aiRuns[r].shown = "warning"
    /\ \A r \in CreatorRunIds :
          (creatorRuns[r].pc = "done" /\ creatorRuns[r].fallback)
              => creatorRuns[r].status = "warning"

\* C5: wherever a walk with a stored end coordinate is classified, an end
\* within the threshold of the start gives circular and an end beyond it
\* gives linear: the badge openDetail has just written, the routing call of
\* a batch re-route, the routing call of aiGenerate for a draft without
\* via-points.
C5_CircularClassification ==
    /\ detailTimers # <<>> =>
          LET w == walks[detailTimers[Len(detailTimers)]]
          IN  EndKnown(w) => /\ EndWithinEps(w) => detailRouteType = "circular"
                             /\ EndBeyondEps(w) => detailRouteType = "linear"
    /\ \A q \in auditRequests :
          LET w == walks[q.index]
          IN  EndKnown(w) => /\ EndWithinEps(w) => q.call.fn = "circular"
                             /\ EndBeyondEps(w) => q.call.fn = "hiking"
    /\ \A r \in AiRunIds :
          (aiRuns[r].pc = "route" /\ ~HasLoop(aiDraft) /\ EndKnown(aiDraft)) =>
              /\ EndWithinEps(aiDraft) => aiRuns[r].call.fn = "circular"
              /\ EndBeyondEps(aiDraft) => aiRuns[r].call.fn = "hiking"

\* C6: a fetchCircularRoute(start, dest) that resolved sent the coordinates
\* fetchHikingRoute(start, start, [dest]) sends and resolved with the
\* RouteResult fetchHikingRoute builds from the same answer, turn
\* instructions included.
C6_CircularIsHikingViaDestination ==
    (orsKind = "circular" /\ orsResult.state = "resolved") =>
        /\ orsRequests[1].coordinates
               = HikingCoordinates(orsArgs.start, orsArgs.start, orsArgs.via)
        /\ orsResult.route = HikingResult(orsData)

\* C7: within one call of the routing client each endpoint is requested at
\* most once.
C7_NoRetry ==
    \A e \in {"proxy", "direct"} :
        Cardinality({i \in DOMAIN orsRequests : orsRequests[i].endpoint = e}) <= 1

\* C8: when the proxy answers with a non-success status other than 500 the
\* direct endpoint is not contacted and the call fails with that status; the
\* direct endpoint is contacted only with a local key stored and the proxy
\* unreachable or answering 500.  (A 200 answer that is not the proxy's JSON
\* is counted as an unreachable proxy.)
C8_DirectOnlyAfterUnreachableOr500 ==
    LET direct == \E i \in DOMAIN orsRequests : orsRequests[i].endpoint = "direct"
    IN  /\ (orsProxySeen.type = "response" /\ orsProxySeen.status \notin {200, 500}) =>
              /\ ~direct
              /\ orsPc = "done" => orsResult = StatusError("proxy", orsProxySeen.status)
        /\ direct => /\ orsLocalKey
                     /\ \/ orsProxySeen.type = "network"
                        \/ orsProxySeen.status \in {200, 500}

\* C9: at most one aiGenerate and at most one generateRoute is in flight.
C9_OneOperationInFlight ==
    /\ Cardinality(AiInFlight) <= 1
    /\ Cardinality(CreatorInFlight) <= 1

AuditLogCount(r, kind, n) ==
    Cardinality({k \in 1..Len(auditRuns[r].log) : auditRuns[r].log[k] = <<kind, n>>})

\* how many entries of that kind run r logged
AuditLogged(r, kind) ==
    Cardinality({k \in 1..Len(auditRuns[r].log) : auditRuns[r].log[k][1] = kind})

\* C11: a routing failure does not abort the batch: no walk is attempted
\* twice by one batch, every failure counted is a failure logged, and when
\* the batch has finished every walk of the library it reported has been
\* attempted exactly once and completed + failed is the total it reported
C11_BatchAttemptsEveryWalkOnce ==
    \A r \in AuditRunIds :
        /\ \A k \in 1..Len(auditRuns[r].log) :
                auditRuns[r].log[k][1] = "start"
                    => AuditLogCount(r, "start", auditRuns[r].log[k][2]) = 1
        /\ auditRuns[r].failed = AuditLogged(r, "fail")
        /\ auditRuns[r].pc = "done" =>
                /\ \A n \in 1..auditRuns[r].total : AuditLogCount(r, "start", n) = 1
                /\ AuditLogged(r, "start") = auditRuns[r].total
                /\ auditRuns[r].completed + auditRuns[r].failed = auditRuns[r].total

\* walk w is walk `orig` but for its waypoints, distance and time
SameButRoute(w, orig) ==
    [w EXCEPT !.waypoints = orig.waypoints,
              !.distance = orig.distance,
              !.time = orig.time] = orig

\* no batch of the page has logged a success for the walk named n
NeverRerouted(n) == \A r \in AuditRunIds : AuditLogCount(r, "ok", n) = 0

\* C12 for the page's batch: only waypoints, distance and time of a walk
\* differ from what the library held, and a walk without a success is as it was
C12_PageFrame ==
    \A i \in 1..Len(walks) :
        /\ SameButRoute(walks[i], LibraryWalk(i))
        /\ NeverRerouted(walks[i].name) => walks[i] = LibraryWalk(i)

\* C12: batch re-routing, by the page or by the routing script, changes only
\* the waypoints, distance and time of a walk whose routing succeeded, and
\* leaves a walk whose routing failed entirely unchanged
C12_BatchChangesOnlyTheRoute ==
    /\ C12_PageFrame
    /\ \A j \in 1..Len(scriptWalks) : SameButRoute(scriptWalks[j], LibraryWalk(j))
    /\ scriptCount.ok = 0 => scriptWalks = Library(MaxScriptWalks)

\* C13: partial progress of a batch is retained: at every moment of a batch
\* (the page may be left then), each walk the batch has re-routed so far has
\* its new route in the Walk Store's list and in the persisted snapshot
C13_PartialProgressPersisted ==
    \A r \in AuditRunIds : \A k \in 1..Len(auditRuns[r].log) :
        auditRuns[r].log[k][1] = "ok" =>
            LET n == auditRuns[r].log[k][2]
            IN  /\ n \in 1..Len(walks)
                /\ walks[n].waypoints # LibraryWalk(n).waypoints
                /\ storedItem = "list"
                /\ n \in 1..Len(storedWalks)
                /\ storedWalks[n].waypoints = walks[n].waypoints
                /\ storedWalks[n].distance = walks[n].distance
                /\ storedWalks[n].time = walks[n].time

\* C13, the in-memory half: every walk a batch has re-routed holds its new
\* route in the module's list
C13_InMemoryProgress ==
    \A r \in AuditRunIds : \A k \in 1..Len(auditRuns[r].log) :
        auditRuns[r].log[k][1] = "ok" =>
            LET n == auditRuns[r].log[k][2]
            IN  /\ n \in 1..Len(walks)
                /\ walks[n].waypoints # LibraryWalk(n).waypoints

\* a step in which setWalks returned: a batch reached the end of its loop
SetWalksReturned ==
    \E r \in AuditRunIds : /\ auditRuns[r].pc # "done"
                           /\ auditRuns'[r].pc = "done"

\* a step that starts a batch on an empty library, which calls setWalks at once
SetWalksReturnedAtOnce ==
    /\ Len(auditRuns') = Len(auditRuns) + 1
    /\ auditRuns'[Len(auditRuns')].pc = "done"

\* a step in which addWalk returned: the module's list is one walk longer
AddWalkReturned ==
    /\ loadPc = loadPc'
    /\ Len(walks') = Len(walks) + 1

\* C14: after every addWalk(walk) and every setWalks(walks) returns, the
\* persisted snapshot in local storage equals the in-memory walk list: the
\* same walks in the same order with the same field values
C14_SnapshotEqualsListAfterSave ==
    [][(SetWalksReturned \/ SetWalksReturnedAtOnce \/ AddWalkReturned)
            => (storedItem' = "list" /\ storedWalks' = walks')]_vars

\* a batch has re-routed a walk and saved at its end, and the snapshot is
\* the re-routed list
C14_Witness ==
    /\ \E r \in AuditRunIds : auditRuns[r].pc = "done" /\ auditRuns[r].completed > 0
    /\ Len(walks) > MaxCached
    /\ storedWalks = walks

\* a step of loadWalks from its call to its await or its end
LoadWalksCalled == loadPc = "start" /\ loadPc' # "start"

\* the stored version differs: the cached list is discarded wholesale
VersionMismatchDiscards ==
    (LoadWalksCalled /\ storedVersion # WALKS_VERSION)
        => (storedItem' = "none" /\ storedWalks' = <<>> /\ loadPc' = "fetch")

\* no usable cache: the default set is fetched, and cached once it arrives
NoUsableCacheFetches ==
    /\ (LoadWalksCalled /\ (storedVersion # WALKS_VERSION \/ storedItem # "list"
                            \/ storedWalks = <<>>))
            => loadPc' = "fetch"
    /\ (loadPc = "fetch" /\ loadPc' = "done")
            => (walks' = DefaultWalks /\ storedItem' = "list"
                /\ storedWalks' = DefaultWalks)

\* C15 as stated: loadWalks returns the cached list without fetching whenever
\* a cached list is present under the current version; a differing version
\* discards the cache; without a usable cache the default set is fetched and
\* cached; after loadWalks the stored version is the current one
C15_CachedListWithoutFetch ==
    /\ [][/\ (LoadWalksCalled /\ storedVersion = WALKS_VERSION /\ storedItem = "list")
                => (loadPc' = "done" /\ walks' = storedWalks
                    /\ UNCHANGED <<storedWalks, storedItem>>)
          /\ VersionMismatchDiscards
          /\ NoUsableCacheFetches]_vars
    /\ [](loadPc # "start" => storedVersion = WALKS_VERSION)

\* C15, amended: as above, but the cached list is returned without fetching
\* only when it holds at least one walk; an empty cached list, like a missing
\* or unparseable one, counts as no usable cache
C15_NonEmptyCachedListWithoutFetch ==
    /\ [][/\ (LoadWalksCalled /\ storedVersion = WALKS_VERSION /\ storedItem = "list"
              /\ storedWalks # <<>>)
                => (loadPc' = "done" /\ walks' = storedWalks
                    /\ filteredWalks' = storedWalks
                    /\ UNCHANGED <<storedWalks, storedItem>>)
          /\ VersionMismatchDiscards
          /\ NoUsableCacheFetches]_vars
    /\ [](loadPc # "start" => storedVersion = WALKS_VERSION)

\* loadWalks has returned a cached list that is not the default set, and no
\* batch has run: the list came from the cache, without a fetch
C15_Witness ==
    /\ loadPc = "done"
    /\ storedVersion = WALKS_VERSION
    /\ auditRuns = <<>>
    /\ walks # <<>>
    /\ Len(walks) < Len(DefaultWalks)
    /\ storedWalks = walks

\* p and q are the same place to within 0.002 degrees on either axis
Near(p, q) ==
    /\ Abs(Lat(p) - Lat(q)) < EpsCircular
    /\ Abs(Lon(p) - Lon(q)) < EpsCircular

\* the waypoints of walk w start at its start and end at its end
RouteMatchesEnds(w) ==
    /\ w.waypoints # <<>>
    /\ Near(w.waypoints[1], WalkStart(w))
    /\ Near(w.waypoints[Len(w.waypoints)], w.end)

\* C16: every walk built by the creator, after any sequence of pin clicks,
\* toggles, Generate and Clear, has waypoints whose first element is at the
\* walk's start and whose last element is at the walk's end, the start for a
\* circular walk (in this view every walk of the library is one the creator
\* built)
C16_BuiltWalkRouteMatchesEnds ==
    \A i \in 1..Len(walks) : RouteMatchesEnds(walks[i])

\* C17: every walk AI Studio hands to the Walk Store or exports has a
\* populated waypoints sequence of at least one point, whenever Add to
\* Library or Export is clicked while an aiGenerate is in flight: the walk
\* the store saved and the walk the export shows both have waypoints
C17_HandedOverWalkHasWaypoints ==
    /\ \A i \in 1..Len(storedWalks) : Len(storedWalks[i].waypoints) >= 1
    /\ \A i \in 1..Len(aiJsonOutput) :
            /\ aiJsonOutput[i].hasWaypoints
            /\ Len(aiJsonOutput[i].waypoints) >= 1

\* the language-model call gave a list of steps: the answer is JSON for a list
DirectionsCallGaveList ==
    /\ dirOutcome.kind = "data"
    /\ dirOutcome.data.kind = "parts"
    /\ extractTextFromResponse(dirOutcome.data).json \in {"steps", "empty"}

\* C18: generateDirections never fails: whatever the outcome of the
\* language-model call (transport error, non-success status, empty response,
\* unparseable or non-list JSON) and whatever the waypoints, the call returns,
\* what it returns is a list, and the list is empty on any failure
C18_DirectionsAlwaysAList ==
    /\ dirPc # "rejected"
    /\ dirPc = "returned" =>
            /\ dirResult.kind = "list"
            /\ ~DirectionsCallGaveList => dirResult.steps = <<>>

\* n is num/den rounded to an integer, a half going either way
IsRounded(num, den, n) == 2 * Abs(num - den * n) <= den

\* "N m", and "X.Y km" for t tenths of a kilometre
MetresText(n) == ToString(n) \o " m"
KmText(t) == ToString(t \div 10) \o "." \o ToString(t % 10) \o " km"

\* 950 -> "950 m", 1000 -> "1.0 km", 12345 -> "12.3 km"
DistanceExamples ==
    /\ fmtMeters = 9500 => fmtDistance = "950 m"
    /\ fmtMeters = 10000 => fmtDistance = "1.0 km"
    /\ fmtMeters = 123450 => fmtDistance = "12.3 km"

\* from 1000 m on the result is m/1000 to one decimal, with " km"
KmFromOneKilometre ==
    fmtMeters >= 10000 =>
        \E t \in 10..(fmtMeters \div 1000 + 1) :
            IsRounded(fmtMeters, 1000, t) /\ fmtDistance = KmText(t)

\* C19 as stated: formatDistance(m) is "N m" with N = m rounded to an
\* integer and N < 1000 when m < 1000, and "X.Y km", m/1000 to one decimal,
\* when m >= 1000; 950 -> "950 m", 1000 -> "1.0 km", 12345 -> "12.3 km"
C19_MetresBelowThousand ==
    fmtDistance # "" =>
        /\ fmtMeters < 10000 =>
                \E n \in 0..999 :
                    IsRounded(fmtMeters, 10, n) /\ fmtDistance = MetresText(n)
        /\ KmFromOneKilometre
        /\ DistanceExamples

\* C19, amended: as above, but N may be 1000: a distance from 999.5 m up to
\* 1000 m is below the threshold and rounds to "1000 m"
C19_MetresUpToThousand ==
    fmtDistance # "" =>
        /\ fmtMeters < 10000 =>
                \E n \in 0..1000 :
                    IsRounded(fmtMeters, 10, n) /\ fmtDistance = MetresText(n)
        /\ KmFromOneKilometre
        /\ DistanceExamples

\* formatDistance has been called with 999.6 m and returned "1000 m"
C19_Witness ==
    /\ fmtMeters = 9996
    /\ fmtDistance = "1000 m"

\* "N mins", and "X.Y hours" for t tenths of an hour, a trailing .0 dropped
MinsText(n) == ToString(n) \o " mins"
HoursText(t) ==
    (IF t % 10 = 0 THEN ToString(t \div 10)
     ELSE ToString(t \div 10) \o "." \o ToString(t % 10)) \o " hours"

\* 1800 -> "30 mins", 3600 -> "1 hours", 5400 -> "1.5 hours"
DurationExamples ==
    /\ fmtSeconds = 18000 => fmtDuration = "30 mins"
    /\ fmtSeconds = 36000 => fmtDuration = "1 hours"
    /\ fmtSeconds = 54000 => fmtDuration = "1.5 hours"

\* from 3600 s on the result is s/3600 rounded to one decimal, with " hours"
HoursFromOneHour ==
    fmtSeconds >= 36000 =>
        \E t \in 10..(fmtSeconds \div 3600 + 1) :
            IsRounded(fmtSeconds, 3600, t) /\ fmtDuration = HoursText(t)

\* C20 as stated: formatDuration(s) is "N mins" with N = s/60 rounded and
\* N < 60 when s < 3600, and "X.Y hours", s/3600 rounded to one decimal with
\* a trailing .0 dropped, when s >= 3600; 1800 -> "30 mins", 3600 ->
\* "1 hours", 5400 -> "1.5 hours"
C20_MinsBelowSixty ==
    fmtDuration # "" =>
        /\ fmtSeconds < 36000 =>
                \E n \in 0..59 :
                    IsRounded(fmtSeconds, 600, n) /\ fmtDuration = MinsText(n)
        /\ HoursFromOneHour
        /\ DurationExamples

\* C20, amended: as above, but N may be 60: a duration from 3570 s up to
\* 3600 s is below the threshold and rounds to "60 mins"
C20_MinsUpToSixty ==
    fmtDuration # "" =>
        /\ fmtSeconds < 36000 =>
                \E n \in 0..60 :
                    IsRounded(fmtSeconds, 600, n) /\ fmtDuration = MinsText(n)
        /\ HoursFromOneHour
        /\ DurationExamples

\* formatDuration has been called with 3599 s and returned "60 mins"
C20_Witness ==
    /\ fmtSeconds = 35990
    /\ fmtDuration = "60 mins"

--------------------------------------------------------------------------
(* C21: the proxy endpoint *)

\* two bodies say the same: the same JSON value, however it is spaced, or
\* the same text
SameBody(a, b) == IF IsJson(a) /\ IsJson(b) THEN a.value = b.value ELSE a = b

\* a POST with a key configured, answered after the routing service answered
ProxyRelayed ==
    /\ proxyPc = "done"
    /\ proxyReq.method = "POST"
    /\ proxyKey
    /\ proxyResponse # NoResponse

\* the answer carries the routing service's status and body
ProxyRelaysUnchanged ==
    ProxyRelayed =>
        /\ proxyRes.status = proxyResponse.status
        /\ SameBody(proxyRes.body, proxyResponse.body)

\* without a key: 500, and nothing was sent to the routing service
ProxyNoKey ==
    (proxyPc = "done" /\ proxyReq.method = "POST" /\ ~proxyKey) =>
        proxyRes.status = 500 /\ proxySent = <<>>

\* a preflight: 200, and nothing was sent to the routing service
ProxyPreflight ==
    (proxyPc = "done" /\ proxyReq.method = "OPTIONS") =>
        proxyRes.status = 200 /\ proxySent = <<>>

\* C21: for a POST with a server key configured, the status and body the
\* proxy returns equal the status and body the routing service returned,
\* for every upstream response; with no key the answer is 500 and the
\* routing service is not contacted; an OPTIONS preflight gets 200 without
\* contacting the routing service.
C21_ProxyRelaysEveryResponse ==
    ProxyRelaysUnchanged /\ ProxyNoKey /\ ProxyPreflight

--------------------------------------------------------------------------
(* C22: the multi-waypoint routing call *)

\* the runs of aiGenerate that have made their routing call
AiCalled == {r \in AiRunIds : aiRuns[r].pc \in {"route", "dirs", "done"}}

\* start, the via-points in order, then start for a circular walk and the
\* walk's end coordinate for any other
ViaRoutePoints(walk) ==
    <<WalkStart(walk)>> \o walk.loopWaypoints
    \o <<IF AiIsCircular(walk) THEN WalkStart(walk) ELSE EndOrStart(walk)>>

\* C22: when the draft supplies a list of intermediate via-points, route
\* assembly calls the multi-waypoint routing operation with exactly start,
\* the via-points in order, then start if the walk is circular, else the
\* walk's end coordinate.
C22_MultiWaypointCallEndsTheRoute ==
    \A r \in AiCalled :
        HasLoop(aiDraft) =>
            /\ aiRuns[r].call.fn = "multi"
            /\ aiRuns[r].call.points = ViaRoutePoints(aiDraft)

\* the part that holds: the call is the multi-waypoint one, it starts with
\* start and the via-points in order, and a circular walk's ends with start
C22_MultiWaypointCallForLoops ==
    \A r \in AiCalled :
        HasLoop(aiDraft) =>
            /\ aiRuns[r].call.fn = "multi"
            /\ SubSeq(aiRuns[r].call.points, 1, 1 + Len(aiDraft.loopWaypoints))
                   = <<WalkStart(aiDraft)>> \o aiDraft.loopWaypoints
            /\ AiIsCircular(aiDraft) => aiRuns[r].call.points = ViaRoutePoints(aiDraft)

--------------------------------------------------------------------------
(* C23: the delay between two routing calls of a batch *)

\* a step in which a batch issues a routing call that is not its first
AuditCallsAgain(r) ==
    \E q \in auditRequests' \ auditRequests : q.run = r /\ q.index > 1

ScriptCallsAgain ==
    scriptPc # "start" /\ scriptRequests' \ scriptRequests # {}

\* C23: in batch re-routing, between any two consecutive routing calls
\* there is a delay step, after a successful call and after a failed one:
\* no call is issued in the step that takes the previous call's result.
C23_DelayBetweenBatchCalls ==
    [][ /\ \A r \in AuditRunIds : AuditCallsAgain(r) => auditRuns[r].pc = "delay"
        /\ ScriptCallsAgain => scriptPc = "delay" ]_vars

\* the part that holds: the routing script waits after every result, and
\* auditRoutes waits after every success
C23_DelayAfterSuccess ==
    [][ /\ \A r \in AuditRunIds :
              (AuditCallsAgain(r) /\ auditRuns'[r].failed = auditRuns[r].failed)
                  => auditRuns[r].pc = "delay"
        /\ ScriptCallsAgain => scriptPc = "delay" ]_vars

--------------------------------------------------------------------------
(* C24: the enrichment of the directions *)

\* the runs of aiGenerate whose generateDirections has resolved
AiEnriched == {r \in AiRunIds : aiRuns[r].dirs # NoDirections}

\* an enrichment that gave no steps: the call failed or the answer had no
\* usable text (an empty list comes back), or the answer was JSON of another
\* shape than a list of steps
EnrichmentFailed(dirs) == dirs.kind # "list" \/ dirs.steps = <<>>

\* the enrichment that the code itself takes for a failure: an empty list
EnrichmentEmpty(dirs) == dirs.kind = "list" /\ dirs.steps = <<>>

\* the step after the routing try asks for directions exactly when the
\* assembled walk has fewer than 3 steps
RequestedWhenFewSteps ==
    [][\A r \in AiRunIds :
          (aiRuns[r].pc = "route" /\ aiRuns'[r].pc # "route") =>
              (aiRuns'[r].pc = "dirs" <=> NeedsDirections(aiRuns'[r].walk))]_vars

\* C24: direction enrichment is requested exactly when the assembled walk
\* has fewer than 3 direction steps; if the enrichment fails or returns an
\* empty list, the walk's directions are left exactly as they were and
\* aiGenerate still completes successfully.
C24_FailedEnrichmentLeavesDirections ==
    /\ RequestedWhenFewSteps
    /\ [](\A r \in AiEnriched :
            EnrichmentFailed(aiRuns[r].dirs) =>
                /\ aiRuns[r].walk.directions = aiDraft.directions
                /\ aiRuns[r].pc = "done"
                /\ aiRuns[r].shown = "success")

\* the part that holds: the request is made exactly for fewer than 3 steps,
\* and an empty list, an object or a null leaves the directions alone and
\* the run successful
C24_EmptyEnrichmentLeavesDirections ==
    /\ RequestedWhenFewSteps
    /\ [](\A r \in AiEnriched :
            (EnrichmentFailed(aiRuns[r].dirs) /\ aiRuns[r].dirs.kind # "string") =>
                /\ aiRuns[r].walk.directions = aiDraft.directions
                /\ aiRuns[r].pc = "done"
                /\ aiRuns[r].shown = "success")

--------------------------------------------------------------------------
(* C25: the destination of a circular routing request *)

\* a call's destination is defined and differs from its start by more than
\* 0.001 degrees on some axis
DestinationDistinct(call) ==
    /\ call.points[2] # NoPoint
    /\ Distinct(call.points[2], call.points[1])

\* the draft gives a destination hint that differs from the start
HintUsable(walk) ==
    /\ Truthy(Lat(walk.destination)) /\ Truthy(Lon(walk.destination))
    /\ Distinct(walk.destination, WalkStart(walk))

\* AI route assembly: the hint when it is present and distinct, otherwise
\* the fixed offset; either way a destination away from the start
AiCircularDestination ==
    \A r \in AiCalled :
        aiRuns[r].call.fn = "circular" =>
            /\ DestinationDistinct(aiRuns[r].call)
            /\ aiRuns[r].call.points[2] =
                   IF HintUsable(aiDraft) THEN aiDraft.destination
                   ELSE <<aiDraft.lat + OffsetLat, aiDraft.lon + OffsetLon>>

\* C25: every circular routing request has a defined destination that
\* differs from start by more than epsilon: in AI route assembly the hint
\* when present and distinct, otherwise a fixed offset; in batch re-routing
\* the stored waypoint farthest from start, or a fixed offset when the walk
\* has too few waypoints.
C25_CircularDestinationDistinct ==
    /\ AiCircularDestination
    /\ \A q \in auditRequests :
          q.call.fn = "circular" => DestinationDistinct(q.call)

--------------------------------------------------------------------------
(* C26: every invocation ends with its button restored *)

\* run r of generateRoute is awaiting its routing call
CreatorRunPending(r) == r \in CreatorRunIds /\ creatorRuns[r].pc = "route"

\* run r of generateRoute has reached its last lines, and btn-generate is
\* enabled and shows its idle label
CreatorRunRestored(r) ==
    /\ r \in CreatorRunIds /\ creatorRuns[r].pc = "done"
    /\ btnGenerate = [disabled |-> FALSE, text |-> "idle"]

\* run r of aiGenerate is awaiting one of its calls
AiRunPending(r) == r \in AiInFlight

\* run r of aiGenerate has returned, and btn-ai-generate is enabled (its
\* label is written with its disabled flag, line for line)
AiRunRestored(r) ==
    /\ r \in AiRunIds /\ aiRuns[r].pc \in {"done", "failed"}
    /\ ~aiBtnDisabled

\* C26: every invocation of generateRoute and of aiGenerate eventually
\* completes with its triggering button re-enabled and showing its idle
\* label, whatever the outcome of its calls and whatever the user does
\* (Clear included) while it is in flight, provided every network call
\* eventually resolves or rejects.
C26_EveryRunRestoresItsButton ==
    /\ \A r \in 1..MaxCreatorRuns : CreatorRunPending(r) ~> CreatorRunRestored(r)
    /\ \A r \in 1..MaxAIRuns : AiRunPending(r) ~> AiRunRestored(r)

\* the part that holds: every invocation of aiGenerate ends with its button
\* restored
C26_AiRunRestoresItsButton ==
    \A r \in 1..MaxAIRuns : AiRunPending(r) ~> AiRunRestored(r)

\* and so does an invocation of generateRoute during which the pins stay
C26_CreatorRunEndsRestored ==
    [][\A r \in CreatorRunIds :
          (creatorRuns[r].pc = "route" /\ creatorRuns'[r].pc # "route"
           /\ startCoords # NoPoint /\ endCoords # NoPoint)
              => CreatorRunRestored(r)']_vars

--------------------------------------------------------------------------
(* C27: the Generate control and the pins *)

\* C27: in every reachable state of the creator view, the Generate control
\* being enabled implies that both the start pin and the destination pin
\* are set, for any interleaving of map clicks, Clear, and the completion of
\* an in-flight generateRoute.
C27_EnabledOnlyWithBothPins ==
    ~btnGenerate.disabled => (startCoords # NoPoint /\ endCoords # NoPoint)

\* the part that holds: while no invocation of generateRoute has ended since
\* the last Clear or map click, the control is enabled only with both pins
C27_ClicksAndClearKeepThePins ==
    [][(\A r \in CreatorRunIds : creatorRuns'[r].pc = creatorRuns[r].pc)
          => (C27_EnabledOnlyWithBothPins => C27_EnabledOnlyWithBothPins')]_vars

--------------------------------------------------------------------------
(* C28: a walk added with addWalk is never lost *)

\* C28: once addWalk(w) has returned, w stays in the in-memory walk list and
\* in the persisted snapshot after any later step, the completion of a
\* loadWalks whose fetch of the default set was still pending and the
\* completion of a batch re-route included.
C28_AddedWalkNeverLost ==
    [][ /\ AddedIn(walks) \subseteq AddedIn(walks')
        /\ AddedIn(storedWalks) \subseteq AddedIn(storedWalks') ]_vars

\* the part that holds: no step other than the arrival of the default set
\* loses an added walk, the end of a batch re-route included
C28_LostOnlyToTheDefaultSet ==
    [][ loadPc' = loadPc =>
            /\ AddedIn(walks) \subseteq AddedIn(walks')
            /\ AddedIn(storedWalks) \subseteq AddedIn(storedWalks') ]_vars

--------------------------------------------------------------------------
(* C29: the displayed list and the filters *)

\* the names of the walks of a list, in the list's order
NameList(ws) == [i \in 1..Len(ws) |-> ws[i].name]

\* the grid shows exactly the walks of the library that match the filters
ShowsTheMatches ==
    NameList(filteredWalks) = NameList(FilterWalks(walks, activeFilters))

\* C29: after any sequence of filter selections, addWalk and setWalks, the
\* displayed list filteredWalks equals exactly the walks of the library
\* that match the active difficulty and type filters.
C29_DisplayedListMatchesFilters == ShowsTheMatches

\* the part that holds: a filter selection and setWalks leave the displayed
\* list equal to the matches, and only addWalk can make it differ
C29_FiltersAndSetWalksShowMatches ==
    [][ /\ activeFilters' # activeFilters => ShowsTheMatches'
        /\ (\E r \in AuditRunIds : auditRuns[r].pc # "done" /\ auditRuns'[r].pc = "done")
              => ShowsTheMatches'
        /\ (Len(walks') = Len(walks) /\ ShowsTheMatches) => ShowsTheMatches' ]_vars

--------------------------------------------------------------------------
(* C30: the detail map and the detail view *)

\* C30: whenever the detail view is closed, no detail map instance exists
\* (detailMap is null), for any interleaving of openDetail, its deferred
\* map-render callback, closeDetail and switchView; and at most one detail
\* map instance exists at any time (the module has the one variable, and
\* the callback removes the map it holds before it creates the next).
C30_NoMapWhileDetailClosed ==
    ~detailActive => detailMap = 0

\* the part that holds: closeDetail itself leaves no map behind, and only
\* the deferred callback creates one
C30_OnlyTheCallbackCreatesAMap ==
    [][ /\ (detailActive /\ ~detailActive') => detailMap' = 0
        /\ (detailMap' # 0 /\ detailMap' # detailMap) => Len(detailTimers') < Len(detailTimers)
      ]_vars

============================================================================
